---- MODULE Spec2Model ----
(***************************************************************************)
(* Image-to-pattern conversion pipeline of the cross-stitch generator:     *)
(* convertToPattern (chunked through requestAnimationFrame, and the        *)
(* standalone variant yielding through setTimeout), limitColors,           *)
(* mergeColors, applyShapeMask and the App component that starts           *)
(* conversions and shows their results.                                    *)
(*                                                                         *)
(* Number model.  The JavaScript code computes on IEEE doubles; the model  *)
(* computes the same quantities exactly on integers:                       *)
(*   - the weighted squared distance dr*dr*0.3 + dg*dg*0.59 + db*db*0.11   *)
(*     is kept multiplied by 100 (Distance100);                            *)
(*   - Math.sqrt(d) < tolerance is compared as d < tolerance^2;            *)
(*   - Math.floor(x*cellWidth + cellWidth/2) is floor((2x+1)*w / (2*g));   *)
(*   - Math.round(v) is floor(v + 1/2);                                    *)
(*   - a store into a Uint8ClampedArray rounds half to even.               *)
(***************************************************************************)
EXTENDS Integers, Sequences, FiniteSets, TLC

(***************************************************************************)
(* Bounds of the model.                                                    *)
(***************************************************************************)
MaxPixels == 6      \* images have at most MaxPixels pixels
MaxGrid == 3        \* gridSize is at most MaxGrid
MaxCells == 18      \* grids have at most MaxCells cells
MaxImage == 17      \* images are numbered 0..MaxImage
MaxColorsArg == 2   \* limitColors is called with maxColors in 1..MaxColorsArg
MaxSide == 3        \* detectBackgroundColor gets images of at most MaxSide x MaxSide

VARIABLES
    imageData,   \* the caller's ImageData: [width, height, data (buffer id)]
    heap,        \* buffer id -> contents of a Uint8ClampedArray
    conv,        \* conversion id -> state of one convertToPattern call
    rafQueue,    \* pending requestAnimationFrame callbacks, FIFO
    sa,          \* state of the standalone convertToPattern call
    pat,         \* pattern handed from one post-processing call to the next
    prevPat,     \* argument of the last post-processing call
    lastOp,      \* the last post-processing call: <<name, parameter>>
    app,         \* React state of App: pattern, colorCounts, progress, isConverting
    call,        \* a call of a synchronous function: name, arguments, result
    order,       \* ids of the calls whose callbacks have run, in the order they ran
    zoom         \* React state zoom of PatternPanel, in percent

vars == <<imageData, heap, conv, rafQueue, sa, pat, prevPat, lastOp, app, call, order, zoom>>

(***************************************************************************)
(* Small helpers.                                                          *)
(***************************************************************************)
Min(a, b) == IF a < b THEN a ELSE b
Max(a, b) == IF a > b THEN a ELSE b
Abs(a) == IF a < 0 THEN -a ELSE a

\* null / no object
Null == << >>

\* Math.round(n/d) for n >= 0, d > 0: floor(n/d + 1/2)
MathRound(n, d) == (2 * n + d) \div (2 * d)

(***************************************************************************)
(* The palette (src/data/dmcColors.js).  Each entry is {id, name, hex};    *)
(* hex "#RRGGBB" is kept as its six hexadecimal digits, idx is the value   *)
(* of the id when the id string is a canonical array index ("310") and     *)
(* NotIndex otherwise ("White"): JavaScript enumerates the integer-like    *)
(* keys of an object first, in ascending numeric order.                    *)
(***************************************************************************)
NotIndex == -1

DMC_COLORS ==
    << [id |-> "White", idx |-> NotIndex, hex |-> <<15, 15, 15, 15, 15, 15>>],
       [id |-> "666",   idx |-> 666,      hex |-> <<14, 3, 1, 13, 4, 2>>],
       [id |-> "310",   idx |-> 310,      hex |-> <<0, 0, 0, 0, 0, 0>>],
       [id |-> "B5200", idx |-> NotIndex, hex |-> <<15, 15, 15, 15, 15, 15>>],
       [id |-> "415",   idx |-> 415,      hex |-> <<12, 0, 12, 0, 12, 0>>],
       [id |-> "414",   idx |-> 414,      hex |-> <<8, 0, 8, 0, 8, 0>>],
       [id |-> "3799",  idx |-> 3799,     hex |-> <<4, 0, 4, 0, 4, 0>>] >>

\* parseInt(hex.slice(pos, pos + 2), 16); pos counts from the '#'
ParseHex(hex, pos) == hex[pos] * 16 + hex[pos + 1]

HexR(c) == ParseHex(c.hex, 1)
HexG(c) == ParseHex(c.hex, 3)
HexB(c) == ParseHex(c.hex, 5)

(***************************************************************************)
(* colorUtils.js                                                           *)
(***************************************************************************)
\* 100 * (dr*dr*0.3 + dg*dg*0.59 + db*db*0.11)
Distance100(dr, dg, db) == dr * dr * 30 + dg * dg * 59 + db * db * 11

Infinity == -1
LessThanMutant(d, m) == m = Infinity \/ d <= m
LessThan(d, m) == m = Infinity \/ d < m

RECURSIVE FindClosestFrom(_, _, _, _, _, _)
FindClosestFrom(i, minDistance, closestColor, r, g, b) ==
    IF i > Len(DMC_COLORS) THEN closestColor
    ELSE LET dmc == DMC_COLORS[i]
             dr == HexR(dmc) - r
             dg == HexG(dmc) - g
             db == HexB(dmc) - b
             distance == Distance100(dr, dg, db)
         IN IF LessThan(distance, minDistance)
            THEN FindClosestFrom(i + 1, distance, dmc, r, g, b)
            ELSE FindClosestFrom(i + 1, minDistance, closestColor, r, g, b)

findClosestDMC(r, g, b) == FindClosestFrom(1, Infinity, DMC_COLORS[1], r, g, b)

\* 100 * colorDistance(c1, c2)^2 ; colors are <<r, g, b>>
colorDistance100(color1, color2) ==
    Distance100(color1[1] - color2[1], color1[2] - color2[2], color1[3] - color2[3])

\* Math.sqrt(d) < tolerance
isSimilarColorMutant(color1, color2, tolerance) ==
    /\ tolerance > 0
    /\ colorDistance100(color1, color2) < 100 * tolerance
isSimilarColor(color1, color2, tolerance) ==
    /\ tolerance > 0
    /\ colorDistance100(color1, color2) < 100 * tolerance * tolerance

(***************************************************************************)
(* colorCounts objects.  An object is kept as the sequence of its values   *)
(* in property enumeration order (what Object.values returns).             *)
(***************************************************************************)
HasKey(cc, id) == \E k \in 1..Len(cc) : cc[k].id = id

KeyPos(cc, id) == CHOOSE k \in 1..Len(cc) : cc[k].id = id

\* position at which a new key lands in the enumeration order
NewKeyPos(cc, idx) ==
    IF idx = NotIndex THEN Len(cc) + 1
    ELSE LET later == {k \in 1..Len(cc) : cc[k].idx = NotIndex \/ cc[k].idx > idx}
         IN IF later = {} THEN Len(cc) + 1
            ELSE CHOOSE k \in later : \A m \in later : k <= m

\* obj[entry.id] = entry
SetKey(cc, entry) ==
    IF HasKey(cc, entry.id)
    THEN [cc EXCEPT ![KeyPos(cc, entry.id)] = entry]
    ELSE LET p == NewKeyPos(cc, entry.idx)
         IN SubSeq(cc, 1, p - 1) \o <<entry>> \o SubSeq(cc, p, Len(cc))

\* obj[id].count++
CountUpMutant(cc, id) == [cc EXCEPT ![KeyPos(cc, id)].count = 1]
CountUp(cc, id) == [cc EXCEPT ![KeyPos(cc, id)].count = @ + 1]

\* { ...color, count: n }
WithCount(color, n) == [id |-> color.id, idx |-> color.idx, hex |-> color.hex, count |-> n]

(***************************************************************************)
(* distributeError                                                         *)
(***************************************************************************)
\* store of value n/16 into a Uint8ClampedArray element
ClampedStore16(n) ==
    LET c == Max(0, Min(255 * 16, n))
        q == c \div 16
        rem == c % 16
    IN IF rem < 8 THEN q
       ELSE IF rem > 8 THEN q + 1
       ELSE IF q % 2 = 0 THEN q ELSE q + 1

\* factor = factor16 / 16
distributeErrorMutant(data, width, height, x, y, errorR, errorG, errorB, factor16) ==
    IF x < 0 \/ x >= width \/ y < 0 \/ y >= height THEN data
    ELSE LET idx == (y * width + x) * 4
         IN [data EXCEPT
               ![idx]     = ClampedStore16(16 * data[idx] + errorR * factor16),
               ![idx + 1] = ClampedStore16(16 * data[idx + 1] + errorG * factor16),
               ![idx + 2] = ClampedStore16(16 * data[idx + 2] + errorB * factor16),
               ![idx + 3] = ClampedStore16(16 * data[idx + 3] + errorB * factor16)]
distributeError(data, width, height, x, y, errorR, errorG, errorB, factor16) ==
    IF x < 0 \/ x >= width \/ y < 0 \/ y >= height THEN data
    ELSE LET idx == (y * width + x) * 4
         IN [data EXCEPT
               ![idx]     = ClampedStore16(16 * data[idx] + errorR * factor16),
               ![idx + 1] = ClampedStore16(16 * data[idx + 1] + errorG * factor16),
               ![idx + 2] = ClampedStore16(16 * data[idx + 2] + errorB * factor16)]

\* the kernels: <<dx, dy, factor16>> in call order
FloydSteinbergMutant == << <<2, 0, 7>>, <<-1, 1, 3>>, <<0, 1, 5>>, <<1, 1, 1>> >>
FloydSteinberg == << <<1, 0, 7>>, <<-1, 1, 3>>, <<0, 1, 5>>, <<1, 1, 1>> >>
AtkinsonMutant == << <<1, 0, 2>>, <<2, 0, 2>>, <<-1, 1, 2>>, <<0, 1, 2>>, <<1, 1, 2>> >>
Atkinson == << <<1, 0, 2>>, <<2, 0, 2>>, <<-1, 1, 2>>, <<0, 1, 2>>, <<1, 1, 2>>, <<0, 2, 2>> >>

RECURSIVE ApplyKernel(_, _, _, _, _, _, _, _, _, _)
ApplyKernel(kernel, k, data, width, height, sampleX, sampleY, errorR, errorG, errorB) ==
    IF k > Len(kernel) THEN data
    ELSE ApplyKernel(kernel, k + 1,
            distributeError(data, width, height,
                            sampleX + kernel[k][1], sampleY + kernel[k][2],
                            errorR, errorG, errorB, kernel[k][3]),
            width, height, sampleX, sampleY, errorR, errorG, errorB)

(***************************************************************************)
(* convertToPattern (modular version)                                      *)
(***************************************************************************)
chunkSize == 5

\* Math.round(gridSize * (height / width))
GridHeight(gridSize, width, height) == MathRound(gridSize * height, width)

\* Math.floor(x * cell + cell / 2) with cell = size / grid
SampleCoordMutant(x, size, grid) == ((2 * x + 2) * size) \div (2 * grid)
SampleCoord(x, size, grid) == ((2 * x + 1) * size) \div (2 * grid)

\* the indices of workingData that processChunk reads for grid cell (x, y)
CellReads(gridWidth, gridHeight, width, height, x, y) ==
    LET sampleX == SampleCoord(x, width, gridWidth)
        sampleY == SampleCoord(y, height, gridHeight)
        idx == (sampleY * width + sampleX) * 4
    IN {idx, idx + 1, idx + 2, idx + 3}

\* a > 128
IsOpaqueMutant(a) == a >= 128
IsOpaque(a) == a > 128

\* body of the inner loop for grid cell (x, y); s holds the working buffer
\* contents and the call's accumulators
ProcessCell(c, s, x, y) ==
    LET width == imageData.width
        height == imageData.height
        sampleX == SampleCoord(x, width, c.gridWidth)
        sampleY == SampleCoord(y, height, c.gridHeight)
        idx == (sampleY * width + sampleX) * 4
        r == s.data[idx]
        g == s.data[idx + 1]
        b == s.data[idx + 2]
        a == s.data[idx + 3]
    IN IF IsOpaque(a)
       THEN IF /\ c.removeBackground
               /\ c.backgroundColor # Null
               /\ isSimilarColor(<<r, g, b>>, c.backgroundColor, c.tolerance)
            THEN [s EXCEPT !.processed = @ + 1, !.skipped = @ + 1]
            ELSE LET dmc == findClosestDMC(r, g, b)
                     cc0 == IF HasKey(s.colorCounts, dmc.id) THEN s.colorCounts
                            ELSE SetKey(s.colorCounts, WithCount(dmc, 0))
                     errorR == r - HexR(dmc)
                     errorG == g - HexG(dmc)
                     errorB == b - HexB(dmc)
                     data1 == IF ~c.useDithering THEN s.data
                              ELSE IF c.ditheringAlgorithm = "floyd-steinberg"
                                   THEN ApplyKernel(FloydSteinberg, 1, s.data, width, height,
                                                    sampleX, sampleY, errorR, errorG, errorB)
                              ELSE IF c.ditheringAlgorithm = "atkinson"
                                   THEN ApplyKernel(Atkinson, 1, s.data, width, height,
                                                    sampleX, sampleY, errorR, errorG, errorB)
                              ELSE s.data
                 IN [s EXCEPT !.stitches = Append(@, [x |-> x, y |-> y, color |-> dmc]),
                              !.colorCounts = CountUp(cc0, dmc.id),
                              !.data = data1,
                              !.processed = @ + 1]
       ELSE [s EXCEPT !.processed = @ + 1]

RECURSIVE ProcessRow(_, _, _, _)
ProcessRow(c, s, x, y) ==
    IF x >= c.gridWidth THEN s
    ELSE ProcessRow(c, ProcessCell(c, s, x, y), x + 1, y)

\* for (let y = startY; y < endY; y++)
RECURSIVE ProcessRows(_, _, _, _)
ProcessRows(c, s, y, endY) ==
    IF y >= endY THEN s
    ELSE ProcessRows(c, ProcessRow(c, s, 0, y), y + 1, endY)

NaN == -2

\* Math.round((processed / total) * 100)
ProgressValue(processed, total) ==
    IF total = 0 THEN NaN ELSE MathRound(100 * processed, total)


(***************************************************************************)
(* convertToPattern (standalone.js): same sampling, one row at a time,     *)
(* yielding to the event loop after the rows with y % 5 = 0.               *)
(***************************************************************************)
SaProcessCell(c, s, x, y) ==
    LET width == imageData.width
        height == imageData.height
        sampleX == SampleCoord(x, width, c.gridWidth)
        sampleY == SampleCoord(y, height, c.gridHeight)
        idx == (sampleY * width + sampleX) * 4
        r == s.data[idx]
        g == s.data[idx + 1]
        b == s.data[idx + 2]
        a == s.data[idx + 3]
    IN IF IsOpaque(a)
       THEN IF /\ c.removeBackground
               /\ c.backgroundColor # Null
               /\ isSimilarColor(<<r, g, b>>, c.backgroundColor, c.tolerance)
            THEN [s EXCEPT !.skipped = @ + 1]
            ELSE LET dmc == findClosestDMC(r, g, b)
                     cc0 == IF HasKey(s.colorCounts, dmc.id) THEN s.colorCounts
                            ELSE SetKey(s.colorCounts, WithCount(dmc, 0))
                     errorR == r - HexR(dmc)
                     errorG == g - HexG(dmc)
                     errorB == b - HexB(dmc)
                     data1 == IF ~c.useDithering THEN s.data
                              ELSE IF c.ditheringAlgorithm = "floyd-steinberg"
                                   THEN ApplyKernel(FloydSteinberg, 1, s.data, width, height,
                                                    sampleX, sampleY, errorR, errorG, errorB)
                              ELSE IF c.ditheringAlgorithm = "atkinson"
                                   THEN ApplyKernel(Atkinson, 1, s.data, width, height,
                                                    sampleX, sampleY, errorR, errorG, errorB)
                              ELSE s.data
                 IN [s EXCEPT !.stitches = Append(@, [x |-> x, y |-> y, color |-> dmc]),
                              !.colorCounts = CountUp(cc0, dmc.id),
                              !.data = data1]
       ELSE s

RECURSIVE SaProcessRow(_, _, _, _)
SaProcessRow(c, s, x, y) ==
    IF x >= c.gridWidth THEN s
    ELSE SaProcessRow(c, SaProcessCell(c, s, x, y), x + 1, y)

\* the rows run from row y up to the next await (the row with y % 5 = 0) or
\* to the end of the loop: <<state, row at which the call is suspended>>
RECURSIVE SaRunToYield(_, _, _)
SaRunToYield(c, s, y) ==
    IF y >= c.gridHeight THEN <<s, y>>
    ELSE LET s1 == SaProcessRow(c, s, 0, y)
         IN IF y % 5 = 0
            THEN <<[s1 EXCEPT !.progress = Append(@, MathRound(100 * y, c.gridHeight))], y + 1>>
            ELSE SaRunToYield(c, s1, y + 1)

(***************************************************************************)
(* limitColors                                                             *)
(***************************************************************************)
\* Array.prototype.sort((a, b) => b.count - a.count): stable, descending
RECURSIVE SortByCount(_, _)
SortByCount(colors, k) ==
    IF k = 0 THEN << >>
    ELSE LET sorted == SortByCount(colors, k - 1)
             e == colors[k]
             p == Cardinality({j \in 1..Len(sorted) : sorted[j].count >= e.count})
         IN SubSeq(sorted, 1, p) \o <<e>> \o SubSeq(sorted, p + 1, Len(sorted))

sortedColors(colorCounts) == SortByCount(colorCounts, Len(colorCounts))

\* topColors.forEach(c => newColorCounts[c.id] = { ...c, count: 0 })
RECURSIVE ZeroCounts(_, _)
ZeroCounts(colors, k) ==
    IF k = 0 THEN << >>
    ELSE SetKey(ZeroCounts(colors, k - 1), WithCount(colors[k], 0))

RECURSIVE ClosestTopFrom(_, _, _, _, _)
ClosestTopFrom(topColors, i, minDistance, closestColor, stitchColor) ==
    IF i > Len(topColors) THEN closestColor
    ELSE LET color == topColors[i]
             dr == HexR(color) - HexR(stitchColor)
             dg == HexG(color) - HexG(stitchColor)
             db == HexB(color) - HexB(stitchColor)
             distance == Distance100(dr, dg, db)
         IN IF LessThan(distance, minDistance)
            THEN ClosestTopFrom(topColors, i + 1, distance, color, stitchColor)
            ELSE ClosestTopFrom(topColors, i + 1, minDistance, closestColor, stitchColor)

ClosestTopMutant(topColors, stitchColor) == topColors[1]
ClosestTop(topColors, stitchColor) ==
    ClosestTopFrom(topColors, 1, Infinity, topColors[1], stitchColor)

\* the stitch the map callback returns for one stitch
LimitStitch(topColors, stitch) ==
    IF \E k \in 1..Len(topColors) : topColors[k].id = stitch.color.id
    THEN stitch
    ELSE [stitch EXCEPT !.color = ClosestTop(topColors, stitch.color)]

\* counts accumulated while mapping the stitches
RECURSIVE CountStitches(_, _, _)
CountStitches(cc, stitches, k) ==
    IF k = 0 THEN cc
    ELSE CountUp(CountStitches(cc, stitches, k - 1), stitches[k].color.id)

limitColorsMutant(pattern, maxColors) ==
    IF maxColors <= 0 THEN pattern
    ELSE LET sorted == sortedColors(pattern.colorCounts)
         IN IF Len(sorted) <= maxColors + 1 THEN pattern
            ELSE LET topColors == SubSeq(sorted, 1, maxColors + 1)
                     newStitches == [k \in 1..Len(pattern.stitches) |->
                                        LimitStitch(topColors, pattern.stitches[k])]
                     newColorCounts == CountStitches(ZeroCounts(topColors, Len(topColors)),
                                                     newStitches, Len(newStitches))
                 IN [pattern EXCEPT !.stitches = newStitches,
                                    !.colorCounts = newColorCounts]
limitColors(pattern, maxColors) ==
    IF maxColors <= 0 THEN pattern
    ELSE LET sorted == sortedColors(pattern.colorCounts)
         IN IF Len(sorted) <= maxColors THEN pattern
            ELSE LET topColors == SubSeq(sorted, 1, maxColors)
                     newStitches == [k \in 1..Len(pattern.stitches) |->
                                        LimitStitch(topColors, pattern.stitches[k])]
                     newColorCounts == CountStitches(ZeroCounts(topColors, Len(topColors)),
                                                     newStitches, Len(newStitches))
                 IN [pattern EXCEPT !.stitches = newStitches,
                                    !.colorCounts = newColorCounts]

(***************************************************************************)
(* detectBackgroundColor                                                   *)
(***************************************************************************)
\* the sample positions <<x, y>>: corners, edge midpoints, then four points
\* for each i in 1..9
RECURSIVE EdgePositions(_, _, _)
EdgePositions(width, height, i) ==
    IF i = 0 THEN << >>
    ELSE EdgePositions(width, height, i - 1)
           \o << <<(width * i) \div 10, 0>>,
                 <<(width * i) \div 10, height - 1>>,
                 <<0, (height * i) \div 10>>,
                 <<width - 1, (height * i) \div 10>> >>

SamplePositions(width, height) ==
    << <<0, 0>>, <<width - 1, 0>>, <<0, height - 1>>, <<width - 1, height - 1>>,
       <<width \div 2, 0>>, <<width \div 2, height - 1>>,
       <<0, height \div 2>>, <<width - 1, height \div 2>> >>
      \o EdgePositions(width, height, 9)

\* the indices of data that detectBackgroundColor reads
PositionReads(width, height) ==
    LET positions == SamplePositions(width, height)
    IN UNION {LET idx == (positions[k][2] * width + positions[k][1]) * 4
              IN {idx, idx + 1, idx + 2} : k \in 1..Len(positions)}

\* the colors <<r, g, b>> at the sample positions
Samples(data, width, height) ==
    LET positions == SamplePositions(width, height)
    IN [k \in 1..Len(positions) |->
          LET idx == (positions[k][2] * width + positions[k][1]) * 4
          IN <<data[idx], data[idx + 1], data[idx + 2]>>]

\* the body of the grouping loop, tolerance 20
AddSample(colorGroups, sample) ==
    LET similar == {j \in 1..Len(colorGroups) :
                       isSimilarColor(sample, colorGroups[j].color, 20)}
    IN IF similar # {}
       THEN LET j == CHOOSE j \in similar : \A m \in similar : j <= m
            IN [colorGroups EXCEPT ![j].count = colorGroups[j].count + 1]
       ELSE Append(colorGroups, [color |-> sample, count |-> 1])

\* the grouping loop from sample k on; SampleGroups(samples, n) is what it
\* has built after the first n samples
RECURSIVE SampleGroupsFrom(_, _, _, _)
SampleGroupsFrom(samples, k, n, colorGroups) ==
    IF k > n THEN colorGroups
    ELSE LET next == AddSample(colorGroups, samples[k])
         IN IF Len(next) = 0 THEN next   \* never: next is computed here
            ELSE SampleGroupsFrom(samples, k + 1, n, next)

SampleGroups(samples, n) == SampleGroupsFrom(samples, 1, n, << >>)

detectBackgroundColorMutant(data, width, height) ==
    LET samples == Samples(data, width, height)
    IN SampleGroups(samples, Len(samples))[1].color
detectBackgroundColor(data, width, height) ==
    LET samples == Samples(data, width, height)
        colorGroups == SampleGroups(samples, Len(samples))
    IN SortByCount(colorGroups, Len(colorGroups))[1].color

(***************************************************************************)
(* mergeColors                                                             *)
(***************************************************************************)
\* the first-fit grouping loop over Object.values(pattern.colorCounts)
RECURSIVE GroupColors(_, _, _)
GroupColors(colors, k, mergeTolerance) ==
    IF k = 0 THEN << >>
    ELSE LET colorGroups == GroupColors(colors, k - 1, mergeTolerance)
             color == colors[k]
             rgb == <<HexR(color), HexG(color), HexB(color)>>
             similar == {j \in 1..Len(colorGroups) :
                            isSimilarColor(rgb, colorGroups[j].representative, mergeTolerance)}
         IN IF similar # {}
            THEN LET j == CHOOSE j \in similar : \A m \in similar : j <= m
                 IN [colorGroups EXCEPT ![j].colors = Append(@, color),
                                        ![j].totalCount = @ + color.count]
            ELSE Append(colorGroups, [representative |-> rgb,
                                      colors |-> <<color>>,
                                      totalCount |-> color.count])

\* group.colors.reduce((prev, curr) => curr.count > prev.count ? curr : prev)
RECURSIVE MostUsed(_, _)
MostUsedMutant(colors, k) == colors[1]
MostUsed(colors, k) ==
    IF k = 1 THEN colors[1]
    ELSE LET prev == MostUsed(colors, k - 1)
             curr == colors[k]
         IN IF curr.count > prev.count THEN curr ELSE prev

\* colorMapping[id] for a color id of the pattern
ColorMapping(colorGroups, id) ==
    LET j == CHOOSE j \in 1..Len(colorGroups) :
                \E m \in 1..Len(colorGroups[j].colors) : colorGroups[j].colors[m].id = id
    IN MostUsed(colorGroups[j].colors, Len(colorGroups[j].colors))

\* newColorCounts[representative.id] = { ...representative, count: 0 }, per group
RECURSIVE GroupCounts(_, _)
GroupCounts(colorGroups, k) ==
    IF k = 0 THEN << >>
    ELSE SetKey(GroupCounts(colorGroups, k - 1),
                WithCount(MostUsed(colorGroups[k].colors, Len(colorGroups[k].colors)), 0))

mergeColors(pattern, mergeTolerance) ==
    IF mergeTolerance <= 0 THEN pattern
    ELSE LET colors == pattern.colorCounts
         IN IF Len(colors) <= 1 THEN pattern
            ELSE LET colorGroups == GroupColors(colors, Len(colors), mergeTolerance)
                     newStitches == [k \in 1..Len(pattern.stitches) |->
                                        [pattern.stitches[k] EXCEPT !.color =
                                            ColorMapping(colorGroups, @.id)]]
                     newColorCounts == CountStitches(GroupCounts(colorGroups, Len(colorGroups)),
                                                     newStitches, Len(newStitches))
                 IN [pattern EXCEPT !.stitches = newStitches,
                                    !.colorCounts = newColorCounts]

(***************************************************************************)
(* applyShapeMask.  With dx = (x - w/2)/(w/2) = (2x - w)/w and             *)
(* dy = (2y - h)/h the predicates are compared after multiplying out the   *)
(* denominators.                                                           *)
(***************************************************************************)
InCircleMutant(x, y, width, height) ==
    (2 * x - width) * (2 * x - width) * height * height
      + (2 * y - height) * (2 * y - height) * width * width
    < width * width * height * height
\* Math.sqrt(dx*dx + dy*dy) <= 1
InCircle(x, y, width, height) ==
    (2 * x - width) * (2 * x - width) * height * height
      + (2 * y - height) * (2 * y - height) * width * width
    <= width * width * height * height

\* Math.abs(dx) + Math.abs(dy) <= 1
InDiamond(x, y, width, height) ==
    Abs(2 * x - width) * height + Abs(2 * y - height) * width <= width * height

\* the grids <<width, height>> on which the heart and star predicates, which
\* go through atan2, sin, cos and log, are tabulated
ShapeGrids == (1..5) \X (1..10)

\* <<x, y, width, height>> with r <= 0.8 + heartR in double arithmetic; where
\* t = 0 (dy = 0 and dx >= 0) Math.log(0) is -Infinity, heartR is NaN and the
\* comparison is false
HeartCells == {
    <<1,1,2,3>>, <<1,2,2,3>>, <<1,1,2,4>>, <<1,3,2,4>>, <<1,1,2,5>>, <<1,2,2,5>>, <<1,3,2,5>>,
    <<1,4,2,5>>, <<1,1,2,6>>, <<1,2,2,6>>, <<1,4,2,6>>, <<1,5,2,6>>, <<1,1,2,7>>, <<1,2,2,7>>,
    <<1,3,2,7>>, <<1,4,2,7>>, <<1,5,2,7>>, <<1,6,2,7>>, <<1,1,2,8>>, <<1,2,2,8>>, <<1,3,2,8>>,
    <<1,5,2,8>>, <<1,6,2,8>>, <<1,7,2,8>>, <<1,1,2,9>>, <<1,2,2,9>>, <<1,3,2,9>>, <<1,4,2,9>>,
    <<1,5,2,9>>, <<1,6,2,9>>, <<1,7,2,9>>, <<1,8,2,9>>, <<1,1,2,10>>, <<1,2,2,10>>,
    <<1,3,2,10>>, <<1,4,2,10>>, <<1,6,2,10>>, <<1,7,2,10>>, <<1,8,2,10>>, <<1,9,2,10>>,
    <<1,1,3,2>>, <<1,1,3,3>>, <<2,1,3,3>>, <<1,2,3,3>>, <<2,2,3,3>>, <<1,1,3,4>>, <<2,1,3,4>>,
    <<1,2,3,4>>, <<1,3,3,4>>, <<2,3,3,4>>, <<1,1,3,5>>, <<2,1,3,5>>, <<1,2,3,5>>, <<2,2,3,5>>,
    <<1,3,3,5>>, <<2,3,3,5>>, <<1,4,3,5>>, <<2,4,3,5>>, <<1,1,3,6>>, <<2,1,3,6>>, <<1,2,3,6>>,
    <<2,2,3,6>>, <<1,3,3,6>>, <<1,4,3,6>>, <<2,4,3,6>>, <<1,5,3,6>>, <<2,5,3,6>>, <<1,1,3,7>>,
    <<2,1,3,7>>, <<1,2,3,7>>, <<2,2,3,7>>, <<1,3,3,7>>, <<2,3,3,7>>, <<1,4,3,7>>, <<2,4,3,7>>,
    <<1,5,3,7>>, <<2,5,3,7>>, <<1,6,3,7>>, <<2,6,3,7>>, <<1,1,3,8>>, <<2,1,3,8>>, <<1,2,3,8>>,
    <<2,2,3,8>>, <<1,3,3,8>>, <<2,3,3,8>>, <<1,4,3,8>>, <<1,5,3,8>>, <<2,5,3,8>>, <<1,6,3,8>>,
    <<2,6,3,8>>, <<1,7,3,8>>, <<2,7,3,8>>, <<1,1,3,9>>, <<1,2,3,9>>, <<2,2,3,9>>, <<1,3,3,9>>,
    <<2,3,3,9>>, <<1,4,3,9>>, <<2,4,3,9>>, <<1,5,3,9>>, <<2,5,3,9>>, <<1,6,3,9>>, <<2,6,3,9>>,
    <<1,7,3,9>>, <<2,7,3,9>>, <<1,8,3,9>>, <<1,1,3,10>>, <<1,2,3,10>>, <<2,2,3,10>>,
    <<1,3,3,10>>, <<2,3,3,10>>, <<1,4,3,10>>, <<2,4,3,10>>, <<1,5,3,10>>, <<1,6,3,10>>,
    <<2,6,3,10>>, <<1,7,3,10>>, <<2,7,3,10>>, <<1,8,3,10>>, <<2,8,3,10>>, <<1,9,3,10>>,
    <<1,1,4,2>>, <<1,1,4,3>>, <<2,1,4,3>>, <<3,1,4,3>>, <<1,2,4,3>>, <<2,2,4,3>>, <<3,2,4,3>>,
    <<1,1,4,4>>, <<2,1,4,4>>, <<3,1,4,4>>, <<1,2,4,4>>, <<1,3,4,4>>, <<2,3,4,4>>, <<3,3,4,4>>,
    <<1,1,4,5>>, <<2,1,4,5>>, <<3,1,4,5>>, <<1,2,4,5>>, <<2,2,4,5>>, <<3,2,4,5>>, <<1,3,4,5>>,
    <<2,3,4,5>>, <<3,3,4,5>>, <<1,4,4,5>>, <<2,4,4,5>>, <<3,4,4,5>>, <<1,1,4,6>>, <<2,1,4,6>>,
    <<1,2,4,6>>, <<2,2,4,6>>, <<3,2,4,6>>, <<1,3,4,6>>, <<1,4,4,6>>, <<2,4,4,6>>, <<3,4,4,6>>,
    <<1,5,4,6>>, <<2,5,4,6>>, <<1,1,4,7>>, <<2,1,4,7>>, <<1,2,4,7>>, <<2,2,4,7>>, <<3,2,4,7>>,
    <<1,3,4,7>>, <<2,3,4,7>>, <<3,3,4,7>>, <<1,4,4,7>>, <<2,4,4,7>>, <<3,4,4,7>>, <<1,5,4,7>>,
    <<2,5,4,7>>, <<3,5,4,7>>, <<1,6,4,7>>, <<2,6,4,7>>, <<1,1,4,8>>, <<2,1,4,8>>, <<1,2,4,8>>,
    <<2,2,4,8>>, <<3,2,4,8>>, <<1,3,4,8>>, <<2,3,4,8>>, <<3,3,4,8>>, <<1,4,4,8>>, <<1,5,4,8>>,
    <<2,5,4,8>>, <<3,5,4,8>>, <<1,6,4,8>>, <<2,6,4,8>>, <<3,6,4,8>>, <<1,7,4,8>>, <<2,7,4,8>>,
    <<1,1,4,9>>, <<2,1,4,9>>, <<1,2,4,9>>, <<2,2,4,9>>, <<3,2,4,9>>, <<1,3,4,9>>, <<2,3,4,9>>,
    <<3,3,4,9>>, <<1,4,4,9>>, <<2,4,4,9>>, <<3,4,4,9>>, <<1,5,4,9>>, <<2,5,4,9>>, <<3,5,4,9>>,
    <<1,6,4,9>>, <<2,6,4,9>>, <<3,6,4,9>>, <<1,7,4,9>>, <<2,7,4,9>>, <<3,7,4,9>>, <<1,8,4,9>>,
    <<2,8,4,9>>, <<2,1,4,10>>, <<1,2,4,10>>, <<2,2,4,10>>, <<3,2,4,10>>, <<1,3,4,10>>,
    <<2,3,4,10>>, <<3,3,4,10>>, <<1,4,4,10>>, <<2,4,4,10>>, <<3,4,4,10>>, <<1,5,4,10>>,
    <<1,6,4,10>>, <<2,6,4,10>>, <<3,6,4,10>>, <<1,7,4,10>>, <<2,7,4,10>>, <<3,7,4,10>>,
    <<1,8,4,10>>, <<2,8,4,10>>, <<3,8,4,10>>, <<2,9,4,10>>, <<1,1,5,2>>, <<2,1,5,2>>,
    <<1,1,5,3>>, <<2,1,5,3>>, <<3,1,5,3>>, <<4,1,5,3>>, <<1,2,5,3>>, <<2,2,5,3>>, <<3,2,5,3>>,
    <<4,2,5,3>>, <<1,1,5,4>>, <<2,1,5,4>>, <<3,1,5,4>>, <<4,1,5,4>>, <<1,2,5,4>>, <<2,2,5,4>>,
    <<1,3,5,4>>, <<2,3,5,4>>, <<3,3,5,4>>, <<4,3,5,4>>, <<1,1,5,5>>, <<2,1,5,5>>, <<3,1,5,5>>,
    <<1,2,5,5>>, <<2,2,5,5>>, <<3,2,5,5>>, <<4,2,5,5>>, <<1,3,5,5>>, <<2,3,5,5>>, <<3,3,5,5>>,
    <<4,3,5,5>>, <<1,4,5,5>>, <<2,4,5,5>>, <<3,4,5,5>>, <<1,1,5,6>>, <<2,1,5,6>>, <<3,1,5,6>>,
    <<1,2,5,6>>, <<2,2,5,6>>, <<3,2,5,6>>, <<4,2,5,6>>, <<1,3,5,6>>, <<2,3,5,6>>, <<1,4,5,6>>,
    <<2,4,5,6>>, <<3,4,5,6>>, <<4,4,5,6>>, <<1,5,5,6>>, <<2,5,5,6>>, <<3,5,5,6>>, <<1,1,5,7>>,
    <<2,1,5,7>>, <<3,1,5,7>>, <<1,2,5,7>>, <<2,2,5,7>>, <<3,2,5,7>>, <<4,2,5,7>>, <<1,3,5,7>>,
    <<2,3,5,7>>, <<3,3,5,7>>, <<4,3,5,7>>, <<1,4,5,7>>, <<2,4,5,7>>, <<3,4,5,7>>, <<4,4,5,7>>,
    <<1,5,5,7>>, <<2,5,5,7>>, <<3,5,5,7>>, <<4,5,5,7>>, <<1,6,5,7>>, <<2,6,5,7>>, <<3,6,5,7>>,
    <<2,1,5,8>>, <<3,1,5,8>>, <<1,2,5,8>>, <<2,2,5,8>>, <<3,2,5,8>>, <<4,2,5,8>>, <<1,3,5,8>>,
    <<2,3,5,8>>, <<3,3,5,8>>, <<4,3,5,8>>, <<1,4,5,8>>, <<2,4,5,8>>, <<1,5,5,8>>, <<2,5,5,8>>,
    <<3,5,5,8>>, <<4,5,5,8>>, <<1,6,5,8>>, <<2,6,5,8>>, <<3,6,5,8>>, <<4,6,5,8>>, <<2,7,5,8>>,
    <<3,7,5,8>>, <<2,1,5,9>>, <<3,1,5,9>>, <<1,2,5,9>>, <<2,2,5,9>>, <<3,2,5,9>>, <<4,2,5,9>>,
    <<1,3,5,9>>, <<2,3,5,9>>, <<3,3,5,9>>, <<4,3,5,9>>, <<1,4,5,9>>, <<2,4,5,9>>, <<3,4,5,9>>,
    <<4,4,5,9>>, <<1,5,5,9>>, <<2,5,5,9>>, <<3,5,5,9>>, <<4,5,5,9>>, <<1,6,5,9>>, <<2,6,5,9>>,
    <<3,6,5,9>>, <<4,6,5,9>>, <<1,7,5,9>>, <<2,7,5,9>>, <<3,7,5,9>>, <<4,7,5,9>>, <<2,8,5,9>>,
    <<3,8,5,9>>, <<2,1,5,10>>, <<3,1,5,10>>, <<1,2,5,10>>, <<2,2,5,10>>, <<3,2,5,10>>,
    <<1,3,5,10>>, <<2,3,5,10>>, <<3,3,5,10>>, <<4,3,5,10>>, <<1,4,5,10>>, <<2,4,5,10>>,
    <<3,4,5,10>>, <<4,4,5,10>>, <<1,5,5,10>>, <<2,5,5,10>>, <<1,6,5,10>>, <<2,6,5,10>>,
    <<3,6,5,10>>, <<4,6,5,10>>, <<1,7,5,10>>, <<2,7,5,10>>, <<3,7,5,10>>, <<4,7,5,10>>,
    <<1,8,5,10>>, <<2,8,5,10>>, <<3,8,5,10>>, <<2,9,5,10>>, <<3,9,5,10>> }

\* <<x, y, width, height>> with radius <= starRadius in double arithmetic
StarCells == {
    <<0,1,1,2>>, <<0,2,1,4>>, <<0,3,1,6>>, <<0,4,1,8>>, <<0,5,1,10>>, <<0,1,2,2>>, <<1,1,2,2>>,
    <<1,1,2,3>>, <<1,2,2,3>>, <<1,1,2,4>>, <<0,2,2,4>>, <<1,2,2,4>>, <<1,2,2,5>>, <<1,3,2,5>>,
    <<1,2,2,6>>, <<0,3,2,6>>, <<1,3,2,6>>, <<1,4,2,6>>, <<1,2,2,7>>, <<1,3,2,7>>, <<1,4,2,7>>,
    <<1,5,2,7>>, <<1,2,2,8>>, <<1,3,2,8>>, <<0,4,2,8>>, <<1,4,2,8>>, <<1,5,2,8>>, <<1,3,2,9>>,
    <<1,4,2,9>>, <<1,5,2,9>>, <<1,6,2,9>>, <<1,3,2,10>>, <<1,4,2,10>>, <<0,5,2,10>>,
    <<1,5,2,10>>, <<1,6,2,10>>, <<1,7,2,10>>, <<0,1,3,2>>, <<1,1,3,2>>, <<2,1,3,3>>,
    <<2,2,3,3>>, <<0,2,3,4>>, <<1,2,3,4>>, <<1,1,3,5>>, <<2,2,3,5>>, <<2,3,3,5>>, <<1,4,3,5>>,
    <<1,1,3,6>>, <<2,2,3,6>>, <<0,3,3,6>>, <<1,3,3,6>>, <<2,4,3,6>>, <<1,5,3,6>>, <<1,1,3,7>>,
    <<2,2,3,7>>, <<2,3,3,7>>, <<2,4,3,7>>, <<2,5,3,7>>, <<1,6,3,7>>, <<1,1,3,8>>, <<2,3,3,8>>,
    <<0,4,3,8>>, <<1,4,3,8>>, <<2,5,3,8>>, <<1,7,3,8>>, <<1,1,3,9>>, <<1,2,3,9>>, <<2,3,3,9>>,
    <<1,4,3,9>>, <<2,4,3,9>>, <<1,5,3,9>>, <<2,5,3,9>>, <<2,6,3,9>>, <<1,7,3,9>>, <<1,8,3,9>>,
    <<1,1,3,10>>, <<1,2,3,10>>, <<2,3,3,10>>, <<2,4,3,10>>, <<0,5,3,10>>, <<1,5,3,10>>,
    <<2,6,3,10>>, <<2,7,3,10>>, <<1,8,3,10>>, <<1,9,3,10>>, <<0,1,4,2>>, <<1,1,4,2>>,
    <<2,1,4,2>>, <<2,1,4,3>>, <<3,1,4,3>>, <<2,2,4,3>>, <<3,2,4,3>>, <<2,1,4,4>>, <<3,1,4,4>>,
    <<0,2,4,4>>, <<1,2,4,4>>, <<2,2,4,4>>, <<3,3,4,4>>, <<2,2,4,5>>, <<3,2,4,5>>, <<2,3,4,5>>,
    <<3,3,4,5>>, <<2,2,4,6>>, <<3,2,4,6>>, <<0,3,4,6>>, <<1,3,4,6>>, <<2,3,4,6>>, <<2,4,4,6>>,
    <<3,4,4,6>>, <<2,2,4,7>>, <<3,2,4,7>>, <<1,3,4,7>>, <<2,3,4,7>>, <<1,4,4,7>>, <<2,4,4,7>>,
    <<2,5,4,7>>, <<3,5,4,7>>, <<2,2,4,8>>, <<3,2,4,8>>, <<2,3,4,8>>, <<3,3,4,8>>, <<0,4,4,8>>,
    <<1,4,4,8>>, <<2,4,4,8>>, <<2,5,4,8>>, <<3,5,4,8>>, <<3,6,4,8>>, <<3,2,4,9>>, <<2,3,4,9>>,
    <<3,3,4,9>>, <<1,4,4,9>>, <<2,4,4,9>>, <<1,5,4,9>>, <<2,5,4,9>>, <<2,6,4,9>>, <<3,6,4,9>>,
    <<3,7,4,9>>, <<2,3,4,10>>, <<3,3,4,10>>, <<2,4,4,10>>, <<3,4,4,10>>, <<0,5,4,10>>,
    <<1,5,4,10>>, <<2,5,4,10>>, <<2,6,4,10>>, <<3,6,4,10>>, <<2,7,4,10>>, <<3,7,4,10>>,
    <<0,1,5,2>>, <<1,1,5,2>>, <<2,1,5,2>>, <<2,1,5,3>>, <<4,1,5,3>>, <<2,2,5,3>>, <<4,2,5,3>>,
    <<2,1,5,4>>, <<4,1,5,4>>, <<0,2,5,4>>, <<1,2,5,4>>, <<2,2,5,4>>, <<2,3,5,4>>, <<4,3,5,4>>,
    <<2,1,5,5>>, <<4,1,5,5>>, <<3,2,5,5>>, <<3,3,5,5>>, <<2,4,5,5>>, <<4,4,5,5>>, <<2,1,5,6>>,
    <<2,2,5,6>>, <<4,2,5,6>>, <<0,3,5,6>>, <<1,3,5,6>>, <<2,3,5,6>>, <<2,4,5,6>>, <<4,4,5,6>>,
    <<2,5,5,6>>, <<2,1,5,7>>, <<2,2,5,7>>, <<4,2,5,7>>, <<1,3,5,7>>, <<3,3,5,7>>, <<1,4,5,7>>,
    <<3,4,5,7>>, <<2,5,5,7>>, <<4,5,5,7>>, <<2,6,5,7>>, <<2,1,5,8>>, <<2,2,5,8>>, <<4,2,5,8>>,
    <<2,3,5,8>>, <<3,3,5,8>>, <<4,3,5,8>>, <<0,4,5,8>>, <<1,4,5,8>>, <<2,4,5,8>>, <<2,5,5,8>>,
    <<3,5,5,8>>, <<4,5,5,8>>, <<2,6,5,8>>, <<4,6,5,8>>, <<2,7,5,8>>, <<2,1,5,9>>, <<2,2,5,9>>,
    <<4,2,5,9>>, <<2,3,5,9>>, <<4,3,5,9>>, <<1,4,5,9>>, <<3,4,5,9>>, <<1,5,5,9>>, <<3,5,5,9>>,
    <<2,6,5,9>>, <<4,6,5,9>>, <<2,7,5,9>>, <<4,7,5,9>>, <<2,8,5,9>>, <<2,1,5,10>>,
    <<2,2,5,10>>, <<4,2,5,10>>, <<2,3,5,10>>, <<4,3,5,10>>, <<3,4,5,10>>, <<0,5,5,10>>,
    <<1,5,5,10>>, <<2,5,5,10>>, <<3,6,5,10>>, <<2,7,5,10>>, <<4,7,5,10>>, <<2,8,5,10>>,
    <<4,8,5,10>>, <<2,9,5,10>> }

InHeart(x, y, width, height) == <<x, y, width, height>> \in HeartCells

InStar(x, y, width, height) == <<x, y, width, height>> \in StarCells

\* the filter callback
KeepStitch(stitch, shape, width, height) ==
    CASE shape = "circle" -> InCircle(stitch.x, stitch.y, width, height)
      [] shape = "oval" -> InCircle(stitch.x, stitch.y, width, height)
      [] shape = "heart" -> InHeart(stitch.x, stitch.y, width, height)
      [] shape = "diamond" -> InDiamond(stitch.x, stitch.y, width, height)
      [] shape = "star" -> InStar(stitch.x, stitch.y, width, height)
      [] OTHER -> TRUE

\* Array.prototype.filter
RECURSIVE FilterStitches(_, _, _, _, _)
FilterStitchesMutant(stitches, k, shape, width, height) ==
    IF k = 0 THEN << >>
    ELSE LET rest == FilterStitches(stitches, k - 1, shape, width, height)
         IN IF KeepStitch(stitches[k], shape, width, height)
            THEN <<stitches[k]>> \o rest
            ELSE rest
FilterStitches(stitches, k, shape, width, height) ==
    IF k = 0 THEN << >>
    ELSE LET rest == FilterStitches(stitches, k - 1, shape, width, height)
         IN IF KeepStitch(stitches[k], shape, width, height)
            THEN Append(rest, stitches[k])
            ELSE rest

\* the loop that recalculates the color counts
RECURSIVE Recount(_, _)
Recount(stitches, k) ==
    IF k = 0 THEN << >>
    ELSE LET cc == Recount(stitches, k - 1)
             color == stitches[k].color
             cc0 == IF HasKey(cc, color.id) THEN cc ELSE SetKey(cc, WithCount(color, 0))
         IN CountUp(cc0, color.id)

applyShapeMaskMutant(pattern, shape) ==
    IF shape = "rectangle" \/ shape = "" THEN pattern
    ELSE [pattern EXCEPT !.stitches = FilterStitches(pattern.stitches, Len(pattern.stitches),
                                                     shape, pattern.width, pattern.height)]
applyShapeMask(pattern, shape) ==
    IF shape = "rectangle" \/ shape = "" THEN pattern
    ELSE LET filteredStitches == FilterStitches(pattern.stitches, Len(pattern.stitches),
                                                shape, pattern.width, pattern.height)
         IN [pattern EXCEPT !.stitches = filteredStitches,
                            !.colorCounts = Recount(filteredStitches, Len(filteredStitches))]


(***************************************************************************)
(* Inputs.                                                                 *)
(***************************************************************************)
\* RGBA values the pixels of the input images take
PixelSeq ==
    << <<255, 255, 255, 255>>,     \* white
       <<160, 160, 160, 255>>,     \* gray, as far from 414 as from 415
       <<230, 30, 60, 255>>,       \* red
       <<100, 100, 100, 255>>,     \* dark gray
       <<0, 0, 0, 128>>,           \* alpha at the threshold
       <<70, 70, 70, 129>> >>      \* alpha just above the threshold

\* image number n: pixel i (row-major) is PixelSeq[offset + i * stride],
\* cyclically, with offset = n % Len(PixelSeq) and stride = n \div Len(PixelSeq)
MakeData(width, height, n) ==
    [i \in 0..(4 * width * height - 1) |->
        PixelSeq[(((n % Len(PixelSeq)) + (i \div 4) * (n \div Len(PixelSeq)))
                    % Len(PixelSeq)) + 1][(i % 4) + 1]]

White == <<255, 255, 255>>

MakeOptions(rb, bg, tol, dither, algorithm) ==
    [removeBackground |-> rb, backgroundColor |-> bg, tolerance |-> tol,
     useDithering |-> dither, ditheringAlgorithm |-> algorithm]

\* <<removeBackground, backgroundColor, tolerance>>
BackgroundSettings ==
    { <<FALSE, White, 100>>, <<TRUE, Null, 100>>, <<TRUE, White, 30>>, <<TRUE, White, 100>> }

\* <<useDithering, ditheringAlgorithm>>
DitherSettings ==
    { <<FALSE, "floyd-steinberg">>, <<TRUE, "floyd-steinberg">>, <<TRUE, "atkinson">> }

OptionSet ==
    {MakeOptions(bg[1], bg[2], bg[3], d[1], d[2]) : bg \in BackgroundSettings, d \in DitherSettings}

\* the inputs of a call: image size, image number, gridSize
InputSet ==
    {in \in [width : 1..MaxPixels, height : 1..MaxPixels, image : 0..MaxImage,
             gridSize : 1..MaxGrid] :
        /\ in.width * in.height <= MaxPixels
        /\ in.gridSize * MathRound(in.gridSize * in.height, in.width) <= MaxCells}

\* buffers: 0 is imageData.data, 1 and 2 the working copies of the two
\* convertToPattern calls, 3 the working copy of the standalone call
ConvIds == {1, 2}
SaBuf == 3
BufIds == 0..3

(***************************************************************************)
(* State of a convertToPattern call.                                       *)
(***************************************************************************)
NoPost == [useMaxColors |-> FALSE, maxColors |-> 20, useMergeColors |-> FALSE,
           mergeTolerance |-> 30, patternShape |-> "rectangle"]

IdleConv ==
    [status |-> "idle", gridWidth |-> 0, gridHeight |-> 0,
     removeBackground |-> FALSE, backgroundColor |-> Null, tolerance |-> 30,
     useDithering |-> FALSE, ditheringAlgorithm |-> "floyd-steinberg",
     workingData |-> 0, stitches |-> << >>, colorCounts |-> << >>,
     processed |-> 0, skipped |-> 0, total |-> 0, progress |-> << >>,
     chunks |-> 0, post |-> NoPost]

\* the synchronous part of convertToPattern(imageData, gridSize, onProgress, options)
NewConvMutant(i, gridSize, options, width, height) ==
    [IdleConv EXCEPT
       !.status = "running",
       !.gridWidth = gridSize,
       !.gridHeight = GridHeight(gridSize, width, height),
       !.removeBackground = options.removeBackground,
       !.backgroundColor = options.backgroundColor,
       !.tolerance = options.tolerance,
       !.useDithering = options.useDithering,
       !.ditheringAlgorithm = options.ditheringAlgorithm,
       !.workingData = 0,
       !.total = gridSize * GridHeight(gridSize, width, height)]
NewConv(i, gridSize, options, width, height) ==
    [IdleConv EXCEPT
       !.status = "running",
       !.gridWidth = gridSize,
       !.gridHeight = GridHeight(gridSize, width, height),
       !.removeBackground = options.removeBackground,
       !.backgroundColor = options.backgroundColor,
       !.tolerance = options.tolerance,
       !.useDithering = options.useDithering,
       !.ditheringAlgorithm = options.ditheringAlgorithm,
       !.workingData = IF options.useDithering THEN i ELSE 0,
       !.total = gridSize * GridHeight(gridSize, width, height)]

\* new Uint8ClampedArray(data) when dithering
WithWorkingCopy(hp, buf, useDithering) ==
    IF useDithering THEN [hp EXCEPT ![buf] = hp[0]] ELSE hp

\* the resolved value { stitches, width, height, colorCounts }
PatternOf(c) ==
    [stitches |-> c.stitches, width |-> c.gridWidth, height |-> c.gridHeight,
     colorCounts |-> c.colorCounts]

\* the post-processing call made last, with its argument
NoOp == [name |-> "none", maxColors |-> 0, mergeTolerance |-> 0, shape |-> ""]

\* the useState initial values of App; requests counts the runs of the
\* conversion effect
NoApp == [pattern |-> Null, colorCounts |-> << >>, progress |-> 0,
          isConverting |-> FALSE, requests |-> 0]

(***************************************************************************)
(* Initial states: the image is loaded and convertToPattern has been       *)
(* called.                                                                 *)
(***************************************************************************)
\* no synchronous call is being followed
NoCall == [fn |-> "none", args |-> << >>, result |-> Null, done |-> FALSE]

Loaded(in) ==
    /\ imageData = [width |-> in.width, height |-> in.height, data |-> 0]
    /\ pat = Null
    /\ prevPat = Null
    /\ lastOp = NoOp
    /\ call = NoCall
    /\ order = << >>
    /\ zoom = 100

FreshHeap(in) ==
    [b \in BufIds |-> IF b = 0 THEN MakeData(in.width, in.height, in.image) ELSE << >>]

\* convertToPattern of the modular build has been called
InitModular(in, options) ==
    /\ Loaded(in)
    /\ heap = WithWorkingCopy(FreshHeap(in), 1, options.useDithering)
    /\ conv = [i \in ConvIds |->
                 IF i = 1 THEN NewConv(1, in.gridSize, options, in.width, in.height)
                 ELSE IdleConv]
    /\ rafQueue = << <<1, 0>> >>
    /\ sa = IdleConv
    /\ app = NoApp

\* convertToPattern of standalone.js has been called
InitStandalone(in, options) ==
    /\ Loaded(in)
    /\ heap = WithWorkingCopy(FreshHeap(in), SaBuf, options.useDithering)
    /\ conv = [i \in ConvIds |-> IdleConv]
    /\ rafQueue = << >>
    /\ sa = [NewConv(SaBuf, in.gridSize, options, in.width, in.height)
                EXCEPT !.status = "called"]
    /\ app = NoApp

Init == \E in \in InputSet, options \in OptionSet : InitModular(in, options)

(***************************************************************************)
(* The modular call, one requestAnimationFrame callback at a time.         *)
(***************************************************************************)
ChunkResultMutant(c, data, startY) ==
    LET endY == Min(startY + chunkSize, c.gridHeight)
        s0 == [data |-> data, stitches |-> c.stitches, colorCounts |-> c.colorCounts,
               processed |-> c.processed, skipped |-> c.skipped]
        s1 == ProcessRows(c, s0, startY, endY)
    IN << [c EXCEPT !.stitches = s1.stitches,
                    !.colorCounts = s1.colorCounts,
                    !.processed = s1.processed,
                    !.skipped = s1.skipped,
                    !.progress = Append(@, ProgressValue(s1.processed, c.total)),
                    !.chunks = @ + 1,
                    !.status = IF endY < c.gridHeight THEN "running" ELSE "resolved"],
          s1.data, endY + 1 >>

\* () => processChunk(startY) of call c on working buffer contents data:
\* <<state of the call after the chunk, buffer contents after it, endY>>
ChunkResult(c, data, startY) ==
    LET endY == Min(startY + chunkSize, c.gridHeight)
        s0 == [data |-> data, stitches |-> c.stitches, colorCounts |-> c.colorCounts,
               processed |-> c.processed, skipped |-> c.skipped]
        s1 == ProcessRows(c, s0, startY, endY)
    IN << [c EXCEPT !.stitches = s1.stitches,
                    !.colorCounts = s1.colorCounts,
                    !.processed = s1.processed,
                    !.skipped = s1.skipped,
                    !.progress = Append(@, ProgressValue(s1.processed, c.total)),
                    !.chunks = @ + 1,
                    !.status = IF endY < c.gridHeight THEN "running" ELSE "resolved"],
          s1.data, endY >>

\* the callback at the head of the queue runs; it belongs to call i
RunChunkMutant(i) ==
    /\ rafQueue # << >>
    /\ Head(rafQueue)[1] = i
    /\ LET res == ChunkResult(conv[i], heap[conv[i].workingData], Head(rafQueue)[2])
       IN /\ conv' = [conv EXCEPT ![i] = res[1]]
          /\ heap' = [heap EXCEPT ![0] = res[2]]
          /\ rafQueue' = IF res[1].status = "running"
                         THEN Append(Tail(rafQueue), <<i, res[3]>>)
                         ELSE Tail(rafQueue)
RunChunk(i) ==
    /\ rafQueue # << >>
    /\ Head(rafQueue)[1] = i
    /\ LET res == ChunkResult(conv[i], heap[conv[i].workingData], Head(rafQueue)[2])
       IN /\ conv' = [conv EXCEPT ![i] = res[1]]
          /\ heap' = [heap EXCEPT ![conv[i].workingData] = res[2]]
          /\ rafQueue' = IF res[1].status = "running"
                         THEN Append(Tail(rafQueue), <<i, res[3]>>)
                         ELSE Tail(rafQueue)

\* a caller that awaits the promise and keeps the pattern
ProcessChunk ==
    /\ RunChunk(1)
    /\ pat' = IF conv'[1].status = "resolved" THEN PatternOf(conv'[1]) ELSE pat
    /\ UNCHANGED <<zoom, order, call, imageData, sa, prevPat, lastOp, app>>

Next == ProcessChunk

Spec == Init /\ [][Next]_vars

(***************************************************************************)
(* The modular call under a browser that runs every queued callback, on    *)
(* the inputs above and on images of one column and up to MaxRows rows.    *)
(***************************************************************************)
MaxRows == 16

TallInputSet ==
    [width : {1}, height : (MaxPixels + 1)..MaxRows, image : {0, 8, 16}, gridSize : {1}]

InitFair ==
    \E in \in InputSet \cup TallInputSet, options \in OptionSet : InitModular(in, options)

\* the browser takes the callback at the head of the queue and runs it; the
\* callback may pass one more callback to requestAnimationFrame.  The steps
\* of ProcessChunk are the steps of this kind, and one is possible exactly
\* when a callback is queued.
FrameRuns ==
    /\ rafQueue # << >>
    /\ \E more \in {<< >>} \cup {<< <<i, startY>> >> : i \in ConvIds, startY \in 0..MaxRows} :
          rafQueue' = Tail(rafQueue) \o more

\* requestAnimationFrame: a callback that stays queued is eventually run
SpecFair == InitFair /\ [][Next]_vars /\ WF_rafQueue(FrameRuns)

(***************************************************************************)
(* Both builds: the modular call or the standalone call on an input.       *)
(***************************************************************************)
\* the standalone call runs from where it is suspended to its next await,
\* or to its return
StandaloneStep ==
    /\ sa.status \in {"called", "running"}
    /\ LET s0 == [data |-> heap[sa.workingData], stitches |-> sa.stitches,
                  colorCounts |-> sa.colorCounts, skipped |-> sa.skipped,
                  progress |-> sa.progress]
           res == SaRunToYield(sa, s0, sa.processed)
           s1 == res[1]
       IN /\ sa' = [sa EXCEPT !.stitches = s1.stitches,
                              !.colorCounts = s1.colorCounts,
                              !.skipped = s1.skipped,
                              !.progress = s1.progress,
                              !.processed = res[2],
                              !.chunks = @ + 1,
                              !.status = IF sa.processed >= sa.gridHeight
                                         THEN "resolved" ELSE "running"]
          /\ heap' = [heap EXCEPT ![sa.workingData] = s1.data]
    /\ UNCHANGED <<zoom, order, call, imageData, conv, rafQueue, pat, prevPat, lastOp, app>>

BuildOptionSet ==
    {MakeOptions(TRUE, White, 100, d[1], d[2]) : d \in DitherSettings}

InitBuilds ==
    \E in \in InputSet, options \in BuildOptionSet :
        \/ InitModular(in, options)
        \/ InitStandalone(in, options)

NextBuilds == ProcessChunk \/ StandaloneStep

SpecBuilds == InitBuilds /\ [][NextBuilds]_vars

(***************************************************************************)
(* Post-processing: a pattern returned by convertToPattern goes through    *)
(* limitColors, mergeColors and applyShapeMask, in any order and any       *)
(* number of times.                                                        *)
(***************************************************************************)
MergeTolerances == {0, 70, 130}

Shapes == {"rectangle", "circle", "oval", "heart", "diamond", "star"}

PostOptionSet ==
    { MakeOptions(FALSE, White, 30, FALSE, "floyd-steinberg"),
      MakeOptions(TRUE, White, 30, TRUE, "floyd-steinberg") }

InitPost == \E in \in InputSet, options \in PostOptionSet : InitModular(in, options)

\* pat = limitColors(pat, maxColors)
LimitColorsMutant ==
    /\ pat # Null
    /\ \E maxColors \in 0..MaxColorsArg :
          /\ pat' = limitColors(pat, maxColors)
          /\ lastOp' = [NoOp EXCEPT !.name = "limitColors", !.maxColors = maxColors]
    /\ prevPat' = [pat EXCEPT !.colorCounts =
                     [k \in 1..Len(pat.colorCounts) |->
                        IF HasKey(pat'.colorCounts, pat.colorCounts[k].id)
                        THEN pat'.colorCounts[KeyPos(pat'.colorCounts, pat.colorCounts[k].id)]
                        ELSE pat.colorCounts[k]]]
    /\ UNCHANGED <<zoom, order, call, imageData, heap, conv, rafQueue, sa, app>>
LimitColors ==
    /\ pat # Null
    /\ \E maxColors \in 0..MaxColorsArg :
          /\ pat' = limitColors(pat, maxColors)
          /\ lastOp' = [NoOp EXCEPT !.name = "limitColors", !.maxColors = maxColors]
    /\ prevPat' = pat
    /\ UNCHANGED <<zoom, order, call, imageData, heap, conv, rafQueue, sa, app>>

\* pat = mergeColors(pat, mergeTolerance)
MergeColors ==
    /\ pat # Null
    /\ \E mergeTolerance \in MergeTolerances :
          /\ pat' = mergeColors(pat, mergeTolerance)
          /\ lastOp' = [NoOp EXCEPT !.name = "mergeColors", !.mergeTolerance = mergeTolerance]
    /\ prevPat' = pat
    /\ UNCHANGED <<zoom, order, call, imageData, heap, conv, rafQueue, sa, app>>

\* pat = applyShapeMask(pat, shape)
ApplyShapeMask ==
    /\ pat # Null
    /\ \E shape \in Shapes :
          /\ shape \in {"heart", "star"} =>
                (pat.stitches = << >> \/ <<pat.width, pat.height>> \in ShapeGrids)
          /\ pat' = applyShapeMask(pat, shape)
          /\ lastOp' = [NoOp EXCEPT !.name = "applyShapeMask", !.shape = shape]
    /\ prevPat' = pat
    /\ UNCHANGED <<zoom, order, call, imageData, heap, conv, rafQueue, sa, app>>

NextPost == ProcessChunk \/ LimitColors \/ MergeColors \/ ApplyShapeMask

SpecPost == InitPost /\ [][NextPost]_vars

(***************************************************************************)
(* App: the conversion effect runs again whenever one of its dependencies  *)
(* changes, and every run's promise callback sets the pattern.             *)
(***************************************************************************)
\* the values a run of the effect closes over
Settings(c) ==
    [gridSize |-> c.gridWidth, removeBackground |-> c.removeBackground,
     backgroundColor |-> c.backgroundColor, tolerance |-> c.tolerance,
     useDithering |-> c.useDithering, ditheringAlgorithm |-> c.ditheringAlgorithm,
     post |-> c.post]

\* the state of App when the image has been loaded
FirstSettings(gridSize) ==
    [gridSize |-> gridSize, removeBackground |-> TRUE, backgroundColor |-> White,
     tolerance |-> 40, useDithering |-> FALSE, ditheringAlgorithm |-> "floyd-steinberg",
     post |-> [useMaxColors |-> FALSE, maxColors |-> MaxColorsArg, useMergeColors |-> FALSE,
               mergeTolerance |-> 70, patternShape |-> "rectangle"]]

\* the settings after one control has been changed
SettingChanges(s) ==
    {[s EXCEPT !.gridSize = g] :
        g \in {n \in (1..MaxGrid) \ {s.gridSize} :
                 n * GridHeight(n, imageData.width, imageData.height) <= MaxCells}}
      \cup {[s EXCEPT !.removeBackground = ~@]}
      \cup {[s EXCEPT !.useDithering = ~@]}
      \cup {[s EXCEPT !.post.useMaxColors = ~@]}
      \cup {[s EXCEPT !.post.useMergeColors = ~@]}
      \cup {[s EXCEPT !.post.patternShape = shape] :
                shape \in {"circle", "diamond"} \ {s.post.patternShape}}

\* the call of convertToPattern in the effect, as call i
EffectConv(i, s) ==
    [NewConv(i, s.gridSize,
             MakeOptions(s.removeBackground, s.backgroundColor, s.tolerance,
                         s.useDithering, s.ditheringAlgorithm),
             imageData.width, imageData.height)
        EXCEPT !.post = s.post]

\* setIsConverting(true); setProgress(0); setPattern(null)
EffectApp(a) ==
    [a EXCEPT !.isConverting = TRUE, !.progress = 0, !.pattern = Null, !.requests = @ + 1]

\* finalResult of the promise callback of call c
FinalResult(c) ==
    LET result == PatternOf(c)
        limited == IF c.post.useMaxColors THEN limitColors(result, c.post.maxColors)
                   ELSE result
        merged == IF c.post.useMergeColors THEN mergeColors(limited, c.post.mergeTolerance)
                  ELSE limited
    IN IF c.post.patternShape # "rectangle"
       THEN applyShapeMask(merged, c.post.patternShape)
       ELSE merged

\* the argument of setPattern, without the svg
ShownPattern(finalResult) ==
    [stitches |-> finalResult.stitches, width |-> finalResult.width,
     height |-> finalResult.height, stitchCount |-> Len(finalResult.stitches)]

InitApp ==
    \E in \in InputSet :
        /\ Loaded(in)
        /\ heap = FreshHeap(in)
        /\ conv = [i \in ConvIds |->
                     IF i = 1
                     THEN [NewConv(1, in.gridSize,
                                   MakeOptions(TRUE, White, 40, FALSE, "floyd-steinberg"),
                                   in.width, in.height)
                             EXCEPT !.post = FirstSettings(in.gridSize).post]
                     ELSE IdleConv]
        /\ rafQueue = << <<1, 0>> >>
        /\ sa = IdleConv
        /\ app = EffectApp(NoApp)

\* a control is changed, App renders again and the effect runs: a second
\* call of convertToPattern starts, whatever the first one is doing
ChangeSettings ==
    /\ app.requests = 1
    /\ \E s \in SettingChanges(Settings(conv[1])) :
          /\ conv' = [conv EXCEPT ![2] = EffectConv(2, s)]
          /\ heap' = WithWorkingCopy(heap, 2, s.useDithering)
    /\ rafQueue' = Append(rafQueue, <<2, 0>>)
    /\ app' = EffectApp(app)
    /\ UNCHANGED <<zoom, order, call, imageData, sa, pat, prevPat, lastOp>>

\* a requestAnimationFrame callback of call i, with setProgress and, when
\* the promise resolves, its .then callback and the effect of PatternPanel
\* that follows the new pattern
AppChunkMutant(i) ==
    /\ RunChunk(i)
    /\ LET c == conv'[i]
           progressed == [app EXCEPT !.progress = c.progress[Len(c.progress)]]
       IN app' = IF c.status = "resolved"
                 THEN [progressed EXCEPT
                         !.pattern = ShownPattern(FinalResult(c)),
                         !.colorCounts = PatternOf(c).colorCounts,
                         !.isConverting = FALSE]
                 ELSE progressed
    /\ zoom' = IF conv'[i].status = "resolved" THEN 100 ELSE zoom
    /\ UNCHANGED <<order, call, imageData, sa, pat, prevPat, lastOp>>
AppChunk(i) ==
    /\ RunChunk(i)
    /\ LET c == conv'[i]
           progressed == [app EXCEPT !.progress = c.progress[Len(c.progress)]]
       IN app' = IF c.status = "resolved"
                 THEN [progressed EXCEPT
                         !.pattern = ShownPattern(FinalResult(c)),
                         !.colorCounts = FinalResult(c).colorCounts,
                         !.isConverting = FALSE]
                 ELSE progressed
    /\ zoom' = IF conv'[i].status = "resolved" THEN 100 ELSE zoom
    /\ UNCHANGED <<order, call, imageData, sa, pat, prevPat, lastOp>>

\* the document generateOpenCrossStitchFormat serialises, without metadata
\* and color names
generateOpenCrossStitchFormat(stitches, width, height, colorCounts) ==
    [pattern |-> [width |-> width, height |-> height, stitchCount |-> Len(stitches)],
     palette |-> [k \in 1..Len(colorCounts) |->
                    [id |-> colorCounts[k].id, hex |-> colorCounts[k].hex,
                     brand |-> "DMC", count |-> colorCounts[k].count]],
     stitches |-> [k \in 1..Len(stitches) |->
                     [x |-> stitches[k].x, y |-> stitches[k].y,
                      color |-> stitches[k].color.id, type |-> "full"]]]

\* downloadOpenFormat, up to the JSON text
downloadOpenFormat ==
    /\ app.pattern # Null
    /\ call' = [fn |-> "generateOpenCrossStitchFormat", args |-> << >>,
                result |-> generateOpenCrossStitchFormat(app.pattern.stitches,
                                                         app.pattern.width,
                                                         app.pattern.height,
                                                         app.colorCounts),
                done |-> TRUE]
    /\ UNCHANGED <<zoom, order, imageData, heap, conv, rafQueue, sa, pat, prevPat, lastOp, app>>

NextApp == ChangeSettings \/ (\E i \in ConvIds : AppChunk(i)) \/ downloadOpenFormat

SpecApp == InitApp /\ [][NextApp]_vars

(***************************************************************************)
(* PatternPanel: the zoom buttons, shown while there is a pattern.         *)
(***************************************************************************)
\* setZoom(prev => Math.min(prev + 0.25, 4))
handleZoomInMutant ==
    /\ app.pattern # Null
    /\ zoom' = zoom + 25
    /\ UNCHANGED <<order, call, imageData, heap, conv, rafQueue, sa, pat, prevPat, lastOp, app>>
handleZoomIn ==
    /\ app.pattern # Null
    /\ zoom' = Min(zoom + 25, 400)
    /\ UNCHANGED <<order, call, imageData, heap, conv, rafQueue, sa, pat, prevPat, lastOp, app>>

\* setZoom(prev => Math.max(prev - 0.25, 0.25))
handleZoomOut ==
    /\ app.pattern # Null
    /\ zoom' = Max(zoom - 25, 25)
    /\ UNCHANGED <<order, call, imageData, heap, conv, rafQueue, sa, pat, prevPat, lastOp, app>>

\* setZoom(1)
handleZoomReset ==
    /\ app.pattern # Null
    /\ zoom' = 100
    /\ UNCHANGED <<order, call, imageData, heap, conv, rafQueue, sa, pat, prevPat, lastOp, app>>

\* the images shown in the panel: one pixel
PanelInputSet == {in \in InputSet : in.width = 1 /\ in.height = 1 /\ in.gridSize = 1}

InitPanel ==
    \E in \in PanelInputSet :
        /\ Loaded(in)
        /\ heap = FreshHeap(in)
        /\ conv = [i \in ConvIds |->
                     IF i = 1 THEN EffectConv(1, FirstSettings(in.gridSize)) ELSE IdleConv]
        /\ rafQueue = << <<1, 0>> >>
        /\ sa = IdleConv
        /\ app = EffectApp(NoApp)

NextPanel ==
    \/ ChangeSettings
    \/ \E i \in ConvIds : AppChunk(i)
    \/ handleZoomIn
    \/ handleZoomOut
    \/ handleZoomReset

SpecPanel == InitPanel /\ [][NextPanel]_vars

(***************************************************************************)
(* Two calls in flight: convertToPattern is called a second time on the    *)
(* same imageData while the first call's callbacks are still queued.       *)
(***************************************************************************)
InitTwo == \E in \in InputSet, options \in BuildOptionSet : InitModular(in, options)

\* convertToPattern(imageData, gridSize, onProgress, options), second call
SecondCall ==
    /\ conv[2].status = "idle"
    /\ \E options \in BuildOptionSet :
          /\ conv' = [conv EXCEPT ![2] = NewConv(2, conv[1].gridWidth, options,
                                                 imageData.width, imageData.height)]
          /\ heap' = WithWorkingCopy(heap, 2, options.useDithering)
    /\ rafQueue' = Append(rafQueue, <<2, 0>>)
    /\ UNCHANGED <<zoom, order, call, imageData, sa, pat, prevPat, lastOp, app>>

\* a requestAnimationFrame callback of call i
TwoChunk(i) ==
    /\ RunChunk(i)
    /\ order' = Append(order, i)
    /\ pat' = IF conv'[i].status = "resolved" THEN PatternOf(conv'[i]) ELSE pat
    /\ UNCHANGED <<zoom, call, imageData, sa, prevPat, lastOp, app>>

NextTwo == SecondCall \/ \E i \in ConvIds : TwoChunk(i)

SpecTwo == InitTwo /\ [][NextTwo]_vars

(***************************************************************************)
(* Synchronous calls: the arguments are drawn in the initial state, the    *)
(* action applies the function.                                            *)
(***************************************************************************)
\* channel values of the colors findClosestDMC is called with: the channel
\* values of the palette and the values half way between its grays
Levels == {0, 29, 32, 64, 66, 96, 128, 160, 192, 224, 227, 255}

\* fn(args) has been called and has not returned yet
Pending(fn, args) == [fn |-> fn, args |-> args, result |-> Null, done |-> FALSE]

\* an image is loaded and no conversion has been started
NoConversion(in) ==
    /\ imageData = [width |-> in.width, height |-> in.height, data |-> 0]
    /\ heap = FreshHeap(in)
    /\ conv = [i \in ConvIds |-> IdleConv]
    /\ rafQueue = << >>
    /\ sa = IdleConv
    /\ app = NoApp
    /\ pat = Null
    /\ prevPat = Null
    /\ lastOp = NoOp
    /\ order = << >>
    /\ zoom = 100

InitFindClosestDMC ==
    /\ NoConversion([width |-> 1, height |-> 1, image |-> 0, gridSize |-> 1])
    /\ \E r, g, b \in Levels : call = Pending("findClosestDMC", <<r, g, b>>)

\* findClosestDMC(r, g, b) returns
FindClosestDMC ==
    /\ call.fn = "findClosestDMC"
    /\ ~call.done
    /\ call' = [call EXCEPT !.result = findClosestDMC(call.args[1], call.args[2], call.args[3]),
                            !.done = TRUE]
    /\ UNCHANGED <<zoom, order, imageData, heap, conv, rafQueue, sa, pat, prevPat, lastOp, app>>

\* RGBA values of the pixels of the images detectBackgroundColor is called
\* on: three light grays 12 apart, so that the first is similar to the second
\* and the second to the third but not the first to the third, and two
\* colors far from them
BorderPixels ==
    << <<255, 255, 255, 255>>, <<243, 243, 243, 255>>, <<231, 231, 231, 255>>,
       <<100, 100, 100, 255>>, <<230, 30, 60, 255>> >>

\* image n of the family: pixel i is BorderPixels[offset + i * stride],
\* cyclically; when framed, the pixels of the border are white instead
BorderData(width, height, n, framed) ==
    [i \in 0..(4 * width * height - 1) |->
        LET x == (i \div 4) % width
            y == (i \div 4) \div width
            onBorder == x = 0 \/ y = 0 \/ x = width - 1 \/ y = height - 1
            pixel == IF framed /\ onBorder THEN 1
                     ELSE (((n % Len(BorderPixels))
                              + (i \div 4) * (n \div Len(BorderPixels)))
                            % Len(BorderPixels)) + 1
        IN BorderPixels[pixel][(i % 4) + 1]]

InitDetectBackgroundColor ==
    \E width, height \in 1..MaxSide, n \in 0..MaxImage, framed \in BOOLEAN :
        /\ imageData = [width |-> width, height |-> height, data |-> 0]
        /\ heap = [b \in BufIds |->
                     IF b = 0 THEN BorderData(width, height, n, framed) ELSE << >>]
        /\ conv = [i \in ConvIds |-> IdleConv]
        /\ rafQueue = << >>
        /\ sa = IdleConv
        /\ app = NoApp
        /\ pat = Null
        /\ prevPat = Null
        /\ lastOp = NoOp
        /\ call = Pending("detectBackgroundColor", << >>)
        /\ order = << >>
        /\ zoom = 100

\* detectBackgroundColor(imageData) returns
DetectBackgroundColor ==
    /\ call.fn = "detectBackgroundColor"
    /\ ~call.done
    /\ call' = [call EXCEPT
                  !.result = detectBackgroundColor(heap[imageData.data], imageData.width,
                                                   imageData.height),
                  !.done = TRUE]
    /\ UNCHANGED <<zoom, order, imageData, heap, conv, rafQueue, sa, pat, prevPat, lastOp, app>>

\* error vectors distributeError is called with: zero, large enough to
\* clamp at both ends, small, and one whose shares fall half way between two
\* byte values
ErrorVectors == {<<0, 0, 0>>, <<200, -200, 40>>, <<-1, 1, -40>>, <<8, -8, 24>>}

\* the factors of the two kernels, in sixteenths
Factors16 == {1, 2, 3, 5, 7}

\* distributeError(workingData, width, height, x, y, errorR, errorG, errorB,
\* factor) has been called on a working copy of a one-color image
InitDistributeError ==
    \E width, height \in 1..2, n \in 0..(Len(PixelSeq) - 1) :
        /\ imageData = [width |-> width, height |-> height, data |-> 0]
        /\ heap = [b \in BufIds |->
                     IF b \in {0, 1} THEN MakeData(width, height, n) ELSE << >>]
        /\ conv = [i \in ConvIds |-> IdleConv]
        /\ rafQueue = << >>
        /\ sa = IdleConv
        /\ app = NoApp
        /\ pat = Null
        /\ prevPat = Null
        /\ lastOp = NoOp
        /\ order = << >>
        /\ zoom = 100
        /\ \E x \in -1..width, y \in -1..height, error \in ErrorVectors, factor16 \in Factors16 :
              call = Pending("distributeError",
                             <<x, y, error[1], error[2], error[3], factor16>>)

\* distributeError returns
DistributeError ==
    /\ call.fn = "distributeError"
    /\ ~call.done
    /\ heap' = [heap EXCEPT
                  ![1] = distributeError(heap[1], imageData.width, imageData.height,
                                         call.args[1], call.args[2], call.args[3],
                                         call.args[4], call.args[5], call.args[6])]
    /\ call' = [call EXCEPT !.done = TRUE]
    /\ UNCHANGED <<zoom, order, imageData, conv, rafQueue, sa, pat, prevPat, lastOp, app>>

\* convertToPattern has been called on a small image of one color, which
\* may have no rows
UniformInputSet ==
    [width : 1..2, height : 0..2, image : 0..(Len(PixelSeq) - 1), gridSize : 1..2]

InitUniform ==
    \E in \in UniformInputSet, options \in BuildOptionSet \cup PostOptionSet :
        InitModular(in, options)

InitCalls ==
    InitFindClosestDMC \/ InitDetectBackgroundColor \/ InitUniform \/ InitDistributeError

NextCalls == FindClosestDMC \/ DetectBackgroundColor \/ ProcessChunk \/ DistributeError

SpecCalls == InitCalls /\ [][NextCalls]_vars

(***************************************************************************)
(* The modular call with dithering on images of up to MaxCoarseSide x      *)
(* MaxCoarseSide pixels, so that grid cells span several pixels.           *)
(***************************************************************************)
MaxCoarseSide == 4

CoarseInputSet ==
    [width : 1..MaxCoarseSide, height : 1..MaxCoarseSide, image : 0..MaxImage,
     gridSize : 1..2]

InitCoarse ==
    \E in \in CoarseInputSet, options \in {o \in OptionSet : o.useDithering} :
        InitModular(in, options)

NextCoarse == ProcessChunk

SpecCoarse == InitCoarse /\ [][NextCoarse]_vars

(***************************************************************************)
(* findConnectedComponents: two-pass labelling of a binary map.            *)
(***************************************************************************)
MaxMapSide == 3

\* map.set(key, value); a Map is a function on its keys
MapSet(map, key, value) ==
    [k \in DOMAIN map \cup {key} |-> IF k = key THEN value ELSE map[k]]

\* equivalences.get(label) || label
GetOr(equivalences, label) ==
    IF label \in DOMAIN equivalences THEN equivalences[label] ELSE label

\* the body of the first pass for pixel idx; st = [labels, equivalences, nextLabel]
LabelPixel(st, binaryMap, width, idx) ==
    LET x == idx % width
        y == idx \div width
        left == IF x > 0 /\ st.labels[idx - 1] > 0 THEN <<st.labels[idx - 1]>> ELSE << >>
        up == IF y > 0 /\ st.labels[idx - width] > 0 THEN <<st.labels[idx - width]>> ELSE << >>
        neighbors == left \o up
    IN IF binaryMap[idx] = 0 THEN st
       ELSE IF Len(neighbors) = 0
       THEN [st EXCEPT !.labels[idx] = st.nextLabel, !.nextLabel = @ + 1]
       ELSE LET minLabel == IF Len(neighbors) = 1 THEN neighbors[1]
                            ELSE Min(neighbors[1], neighbors[2])
                others == {k \in 1..Len(neighbors) : neighbors[k] # minLabel}
            IN IF others = {}
               THEN [st EXCEPT !.labels[idx] = minLabel]
               ELSE LET label == neighbors[CHOOSE k \in others : TRUE]
                        existingEquiv == GetOr(st.equivalences, label)
                        lower == Min(minLabel, existingEquiv)
                    IN [st EXCEPT
                          !.labels[idx] = minLabel,
                          !.equivalences = MapSet(MapSet(@, label, lower), minLabel, lower)]

\* first pass over the pixels idx, idx + 1, ..., n - 1
RECURSIVE FirstPass(_, _, _, _, _)
FirstPass(st, binaryMap, width, idx, n) ==
    IF idx >= n THEN st
    ELSE FirstPass(LabelPixel(st, binaryMap, width, idx), binaryMap, width, idx + 1, n)

\* resolve(label)
RECURSIVE resolve(_, _)
resolve(equivalences, label) ==
    IF label \in DOMAIN equivalences /\ equivalences[label] # label
    THEN resolve(equivalences, equivalences[label])
    ELSE label

\* second pass over the pixels i, ..., n - 1: the entries of componentSizes
\* and componentPixels, in insertion order
RECURSIVE SecondPass(_, _, _, _, _)
SecondPass(components, labels, equivalences, i, n) ==
    IF i >= n THEN components
    ELSE IF labels[i] = 0 THEN SecondPass(components, labels, equivalences, i + 1, n)
    ELSE LET resolved == resolve(equivalences, labels[i])
             at == {k \in 1..Len(components) : components[k].label = resolved}
             next == IF at = {}
                     THEN Append(components,
                                 [label |-> resolved, size |-> 1, pixels |-> <<i>>])
                     ELSE LET k == CHOOSE j \in at : TRUE
                          IN [components EXCEPT ![k].size = @ + 1,
                                                ![k].pixels = Append(@, i)]
         IN SecondPass(next, labels, equivalences, i + 1, n)

\* components.sort((a, b) => b.size - a.size)
RECURSIVE SortBySize(_, _)
SortBySize(components, k) ==
    IF k = 0 THEN << >>
    ELSE LET sorted == SortBySize(components, k - 1)
             e == components[k]
             p == Cardinality({j \in 1..Len(sorted) : sorted[j].size >= e.size})
         IN SubSeq(sorted, 1, p) \o <<e>> \o SubSeq(sorted, p + 1, Len(sorted))

findConnectedComponents(binaryMap, width, height) ==
    LET n == width * height
        first == FirstPass([labels |-> [i \in 0..(n - 1) |-> 0],
                            equivalences |-> << >>, nextLabel |-> 1],
                           binaryMap, width, 0, n)
        components == SecondPass(<< >>, first.labels, first.equivalences, 0, n)
    IN SortBySize(components, Len(components))

\* findConnectedComponents(binaryMap, width, height) has been called
InitComponents ==
    /\ NoConversion([width |-> 1, height |-> 1, image |-> 0, gridSize |-> 1])
    /\ \E width, height \in 1..MaxMapSide :
          \E binaryMap \in [0..(width * height - 1) -> {0, 1}] :
             call = Pending("findConnectedComponents", <<binaryMap, width, height>>)

\* findConnectedComponents returns
FindConnectedComponents ==
    /\ call.fn = "findConnectedComponents"
    /\ ~call.done
    /\ call' = [call EXCEPT
                  !.result = findConnectedComponents(call.args[1], call.args[2], call.args[3]),
                  !.done = TRUE]
    /\ UNCHANGED <<zoom, order, imageData, heap, conv, rafQueue, sa, pat, prevPat, lastOp, app>>

NextComponents == FindConnectedComponents

SpecComponents == InitComponents /\ [][NextComponents]_vars

(***************************************************************************)
(* Properties of the conversion.                                           *)
(***************************************************************************)
\* number of stitches of a pattern that carry color id
CountOf(stitches, id) == Cardinality({k \in 1..Len(stitches) : stitches[k].color.id = id})

RECURSIVE SumCounts(_, _)
SumCounts(cc, k) == IF k = 0 THEN 0 ELSE SumCounts(cc, k - 1) + cc[k].count

\* stitches and colorCounts of a pattern agree
Consistent(p) ==
    /\ \A k \in 1..Len(p.stitches) : HasKey(p.colorCounts, p.stitches[k].color.id)
    /\ \A k \in 1..Len(p.colorCounts) :
          /\ p.colorCounts[k].count = CountOf(p.stitches, p.colorCounts[k].id)
          /\ p.colorCounts[k].count >= 1
          /\ \A m \in 1..Len(p.colorCounts) : p.colorCounts[m].id = p.colorCounts[k].id => m = k
    /\ SumCounts(p.colorCounts, Len(p.colorCounts)) = Len(p.stitches)

\* the patterns the calls have returned so far
Returned ==
    {PatternOf(conv[i]) : i \in {j \in ConvIds : conv[j].status = "resolved"}}
      \cup (IF sa.status = "resolved" THEN {PatternOf(sa)} ELSE {})

\* C1: in every pattern convertToPattern returns, every stitch's color id is
\* a key of colorCounts, colorCounts[id].count is the number of stitches with
\* that id (hence at least 1), and the counts sum to stitches.length.
C1_CountsMatchStitches == \A p \in Returned : Consistent(p)

C1_Witness ==
    /\ conv[1].status = "resolved"
    /\ conv[1].removeBackground /\ conv[1].skipped > 0
    /\ conv[1].useDithering
    /\ Len(conv[1].colorCounts) >= 3
    /\ \E k \in 1..Len(conv[1].colorCounts) : conv[1].colorCounts[k].count >= 2

\* the whole grid in a single pass over a working buffer taken from the image
OnePass(c) ==
    LET s0 == [data |-> heap[0], stitches |-> << >>, colorCounts |-> << >>,
               processed |-> 0, skipped |-> 0]
        s1 == ProcessRows(c, s0, 0, c.gridHeight)
    IN [stitches |-> s1.stitches, width |-> c.gridWidth, height |-> c.gridHeight,
        colorCounts |-> s1.colorCounts]

\* the whole grid in chunks of k rows
RECURSIVE ChunkedRows(_, _, _, _)
ChunkedRows(c, s, y, k) ==
    IF y >= c.gridHeight THEN s
    ELSE ChunkedRows(c, ProcessRows(c, s, y, Min(y + k, c.gridHeight)), y + k, k)

Chunked(c, k) ==
    LET s0 == [data |-> heap[0], stitches |-> << >>, colorCounts |-> << >>,
               processed |-> 0, skipped |-> 0]
        s1 == ChunkedRows(c, s0, 0, k)
    IN [stitches |-> s1.stitches, width |-> c.gridWidth, height |-> c.gridHeight,
        colorCounts |-> s1.colorCounts]

MaxChunk == 2

\* C2: the pattern is the same whether the rows are processed in one pass or
\* in chunks: the modular call (chunks of 5 rows), the standalone call (yield
\* after rows 0, 5, 10, ...) and runs in chunks of 1..MaxChunk rows all return
\* the pattern of the single pass, with and without dithering.
C2_ChunkingInvariant ==
    /\ conv[1].status = "resolved" =>
          /\ PatternOf(conv[1]) = OnePass(conv[1])
          /\ \A k \in 1..MaxChunk : Chunked(conv[1], k) = OnePass(conv[1])
    /\ sa.status = "resolved" => PatternOf(sa) = OnePass(sa)

C2_Witness ==
    /\ conv[1].status = "resolved"
    /\ conv[1].chunks >= 2
    /\ conv[1].useDithering
    /\ Len(conv[1].colorCounts) >= 2
    /\ heap[1] # heap[0]

C2_WitnessStandalone ==
    /\ sa.status = "resolved"
    /\ sa.chunks >= 3
    /\ sa.useDithering
    /\ heap[SaBuf] # heap[0]

\* C3 (as claimed): the progress callback of a conversion reports integer
\* percentages in 0..100, never decreasing, one per chunk, and the last
\* reported value is 100.
C3_ProgressEndsAt100 ==
    LET p == conv[1].progress
    IN /\ Len(p) = conv[1].chunks
       /\ \A k \in 1..Len(p) : p[k] \in 0..100
       /\ \A k \in 1..(Len(p) - 1) : p[k] <= p[k + 1]
       /\ conv[1].status = "resolved" => (Len(p) >= 1 /\ p[Len(p)] = 100)

\* grid cells whose sampled pixel of the image has alpha > 128
OpaqueCells(c) ==
    {xy \in (0..(c.gridWidth - 1)) \X (0..(c.gridHeight - 1)) :
        heap[0][(SampleCoord(xy[2], imageData.height, c.gridHeight) * imageData.width
                 + SampleCoord(xy[1], imageData.width, c.gridWidth)) * 4 + 3] > 128}

\* C8: a run with removeBackground enabled never returns more stitches than
\* the run on the same input with removeBackground disabled, and a run with
\* removal disabled returns one stitch per grid cell whose sampled alpha is
\* greater than 128.
C8_BackgroundRemovalMonotone ==
    conv[1].status = "resolved" =>
        LET off == OnePass([conv[1] EXCEPT !.removeBackground = FALSE])
        IN /\ Len(conv[1].stitches) <= Len(off.stitches)
           /\ Len(off.stitches) = Cardinality(OpaqueCells(conv[1]))
           /\ ~conv[1].removeBackground =>
                 Len(conv[1].stitches) = Cardinality(OpaqueCells(conv[1]))

C8_Witness ==
    /\ conv[1].status = "resolved"
    /\ conv[1].removeBackground
    /\ conv[1].skipped > 0
    /\ Len(conv[1].stitches) > 0
    /\ Len(conv[1].stitches) + conv[1].skipped < conv[1].total

(***************************************************************************)
(* Properties of the post-processing calls.                                *)
(***************************************************************************)
\* C5: after any sequence of limitColors, mergeColors and applyShapeMask
\* calls on a pattern returned by convertToPattern, every stitch's color id
\* is a key of colorCounts, every count is the number of stitches with that
\* id, no entry has count 0, and the counts sum to stitches.length.
C5_PostProcessingKeepsCounts == pat # Null => Consistent(pat)

\* a stitch color that carries a count was put there by limitColors or
\* mergeColors
Recolored(p) == \E k \in 1..Len(p.stitches) : "count" \in DOMAIN p.stitches[k].color

C5_Witness ==
    /\ lastOp.name = "applyShapeMask"
    /\ Len(pat.stitches) < Len(prevPat.stitches)
    /\ Len(pat.colorCounts) < Len(prevPat.colorCounts)
    /\ Len(pat.colorCounts) >= 2
    /\ Recolored(pat)

\* <<y, x>> of the stitches, in order
Coords(p) == [k \in 1..Len(p.stitches) |-> <<p.stitches[k].y, p.stitches[k].x>>]

\* strictly increasing row-major order, coordinates inside the grid
RowMajor(p) ==
    LET c == Coords(p)
    IN /\ \A k \in 1..(Len(c) - 1) :
             \/ c[k][1] < c[k + 1][1]
             \/ c[k][1] = c[k + 1][1] /\ c[k][2] < c[k + 1][2]
       /\ \A k \in 1..Len(c) : c[k][1] \in 0..(p.height - 1) /\ c[k][2] \in 0..(p.width - 1)

\* s is t with some elements left out
RECURSIVE IsSubSeq(_, _)
IsSubSeq(s, t) ==
    IF s = << >> THEN TRUE
    ELSE IF t = << >> THEN FALSE
    ELSE IF Head(s) = Head(t) THEN IsSubSeq(Tail(s), Tail(t))
    ELSE IsSubSeq(s, Tail(t))

\* C6: the stitches of a pattern returned by convertToPattern are in strictly
\* increasing row-major order with 0 <= x < width and 0 <= y < height;
\* limitColors and mergeColors keep the sequence of coordinates,
\* applyShapeMask keeps a subsequence of it, and width and height stay, so
\* this holds after any sequence of the three calls.
C6_RowMajorOrder ==
    /\ pat # Null => RowMajor(pat)
    /\ lastOp.name \in {"limitColors", "mergeColors"} => Coords(pat) = Coords(prevPat)
    /\ lastOp.name = "applyShapeMask" => IsSubSeq(Coords(pat), Coords(prevPat))
    /\ lastOp.name # "none" => pat.width = prevPat.width /\ pat.height = prevPat.height

C6_Witness ==
    /\ lastOp.name = "applyShapeMask"
    /\ conv[1].skipped > 0
    /\ Len(pat.stitches) >= 3
    /\ Len(pat.stitches) < Len(prevPat.stitches)
    /\ \E k \in 1..Len(pat.stitches) : pat.stitches[k].y # pat.stitches[1].y
    /\ Recolored(pat)

\* C7: for k >= 1, limitColors(p, k) has at most k keys in colorCounts and as
\* many stitches as p, and is p itself when p has at most k colors.
C7_LimitColorsBound ==
    (lastOp.name = "limitColors" /\ lastOp.maxColors >= 1) =>
        /\ Len(pat.colorCounts) <= lastOp.maxColors
        /\ Len(pat.stitches) = Len(prevPat.stitches)
        /\ Len(prevPat.colorCounts) <= lastOp.maxColors => pat = prevPat

C7_Witness ==
    /\ lastOp.name = "limitColors"
    /\ lastOp.maxColors = 2
    /\ Len(prevPat.colorCounts) >= 4
    /\ Len(pat.colorCounts) = 2
    /\ Len(pat.stitches) >= 5

C7_WitnessUnchanged ==
    /\ lastOp.name = "limitColors"
    /\ lastOp.maxColors = 2
    /\ Len(prevPat.colorCounts) = 2
    /\ pat = prevPat

\* C9: applyShapeMask with 'circle' or 'oval' keeps exactly the stitches with
\* dx^2 + dy^2 <= 1 and with 'diamond' exactly those with |dx| + |dy| <= 1,
\* where dx = (x - w/2)/(w/2) = (2x - w)/w and dy = (2y - h)/h; the other
\* stitches are dropped, the kept ones are the stitches they were (same
\* color), and width and height are unchanged.
C9_ShapeMaskKeepsInside ==
    (lastOp.name = "applyShapeMask" /\ lastOp.shape \in {"circle", "oval", "diamond"}) =>
        LET w == prevPat.width
            h == prevPat.height
            nx(st) == 2 * st.x - w
            ny(st) == 2 * st.y - h
            inside(st) ==
                IF lastOp.shape = "diamond"
                THEN Abs(nx(st)) * h + Abs(ny(st)) * w <= w * h
                ELSE nx(st) * nx(st) * h * h + ny(st) * ny(st) * w * w <= w * w * h * h
            before == {prevPat.stitches[k] : k \in 1..Len(prevPat.stitches)}
            after == {pat.stitches[k] : k \in 1..Len(pat.stitches)}
        IN /\ after = {st \in before : inside(st)}
           /\ Cardinality(after) = Len(pat.stitches)
           /\ pat.width = w /\ pat.height = h

\* a circle that drops a corner and keeps a stitch on its boundary
C9_Witness ==
    /\ lastOp.name = "applyShapeMask"
    /\ lastOp.shape = "circle"
    /\ Len(pat.stitches) < Len(prevPat.stitches)
    /\ Len(pat.colorCounts) >= 2
    /\ \E k \in 1..Len(pat.stitches) :
          LET st == pat.stitches[k]
          IN (2 * st.x - pat.width) * (2 * st.x - pat.width) * pat.height * pat.height
               + (2 * st.y - pat.height) * (2 * st.y - pat.height) * pat.width * pat.width
             = pat.width * pat.width * pat.height * pat.height

C9_WitnessDiamond ==
    /\ lastOp.name = "applyShapeMask"
    /\ lastOp.shape = "diamond"
    /\ Len(pat.stitches) < Len(prevPat.stitches)
    /\ Len(pat.stitches) >= 3

\* number of entries of cc ranked before cc[k]: higher count first, equal
\* counts in the enumeration order of the object
Rank(cc, k) ==
    Cardinality({j \in 1..Len(cc) :
                    \/ cc[j].count > cc[k].count
                    \/ cc[j].count = cc[k].count /\ j < k})

\* 100 times the weighted squared distance between two color objects
HexDistance100(a, b) == Distance100(HexR(a) - HexR(b), HexG(a) - HexG(b), HexB(a) - HexB(b))

\* C10: when a pattern has more than maxColors colors, limitColors keeps the
\* maxColors colors ranked first by count (equal counts in the enumeration
\* order of colorCounts), returns every stitch of a kept color as it was, and
\* gives every other stitch the kept color at the least weighted squared
\* distance 0.30 dr^2 + 0.59 dg^2 + 0.11 db^2 from its own color, the one
\* ranked first among those at equal distance.
C10_LimitColorsRemap ==
    (/\ lastOp.name = "limitColors"
     /\ lastOp.maxColors >= 1
     /\ Len(prevPat.colorCounts) > lastOp.maxColors) =>
        LET cc == prevPat.colorCounts
            kept == {k \in 1..Len(cc) : Rank(cc, k) < lastOp.maxColors}
            isKept(st) == \E k \in kept : cc[k].id = st.color.id
            best(st) == CHOOSE k \in kept : \A m \in kept :
                           \/ HexDistance100(cc[k], st.color) < HexDistance100(cc[m], st.color)
                           \/ /\ HexDistance100(cc[k], st.color) = HexDistance100(cc[m], st.color)
                              /\ Rank(cc, k) <= Rank(cc, m)
        IN /\ {pat.colorCounts[k].id : k \in 1..Len(pat.colorCounts)} = {cc[k].id : k \in kept}
           /\ Len(pat.stitches) = Len(prevPat.stitches)
           /\ \A i \in 1..Len(prevPat.stitches) :
                 LET st == prevPat.stitches[i]
                 IN IF isKept(st) THEN pat.stitches[i] = st
                    ELSE /\ pat.stitches[i].x = st.x
                         /\ pat.stitches[i].y = st.y
                         /\ pat.stitches[i].color.id = cc[best(st)].id
                         /\ pat.stitches[i].color.hex = cc[best(st)].hex

\* a stitch is remapped to a kept color that is not ranked first, and a
\* stitch whose color is as far from two kept colors is remapped
C10_Witness ==
    /\ lastOp.name = "limitColors"
    /\ Len(prevPat.colorCounts) > lastOp.maxColors
    /\ lastOp.maxColors >= 2
    /\ LET cc == prevPat.colorCounts
           top == SubSeq(sortedColors(cc), 1, lastOp.maxColors)
       IN /\ \E i \in 1..Len(pat.stitches) :
                /\ pat.stitches[i].color.id # prevPat.stitches[i].color.id
                /\ pat.stitches[i].color.id # top[1].id
          /\ \E i \in 1..Len(pat.stitches) :
                /\ pat.stitches[i].color.id # prevPat.stitches[i].color.id
                /\ HexDistance100(top[1], prevPat.stitches[i].color)
                     = HexDistance100(top[2], prevPat.stitches[i].color)

\* the cut falls between two colors of equal count
C10_WitnessCountTie ==
    /\ lastOp.name = "limitColors"
    /\ Len(prevPat.colorCounts) > lastOp.maxColors
    /\ lastOp.maxColors >= 1
    /\ LET sorted == sortedColors(prevPat.colorCounts)
       IN sorted[lastOp.maxColors].count = sorted[lastOp.maxColors + 1].count

(***************************************************************************)
(* Properties of App.                                                      *)
(***************************************************************************)
\* C4 (as claimed): when a second conversion was started while the first
\* was in flight, then once both have completed, in whatever order, the
\* pattern and colorCounts of App are those of the second request.
C4_LatestRequestShown ==
    (app.requests = 2 /\ conv[1].status = "resolved" /\ conv[2].status = "resolved") =>
        /\ app.pattern = ShownPattern(FinalResult(conv[2]))
        /\ app.colorCounts = FinalResult(conv[2]).colorCounts

(***************************************************************************)
(* Properties of mergeColors.                                              *)
(***************************************************************************)
\* the call made last is a mergeColors call that went past its early returns
Merged ==
    /\ lastOp.name = "mergeColors"
    /\ lastOp.mergeTolerance > 0
    /\ Len(prevPat.colorCounts) > 1

\* the entry of color id in the colorCounts of the pattern passed in
PrevEntry(id) == prevPat.colorCounts[KeyPos(prevPat.colorCounts, id)]

\* the ids of the group of the first-fit grouping that color id is in
GroupOf(id) ==
    LET colorGroups == GroupColors(prevPat.colorCounts, Len(prevPat.colorCounts),
                                   lastOp.mergeTolerance)
        j == CHOOSE j \in 1..Len(colorGroups) :
                \E m \in 1..Len(colorGroups[j].colors) : colorGroups[j].colors[m].id = id
    IN {colorGroups[j].colors[m].id : m \in 1..Len(colorGroups[j].colors)}

SimilarEntries(a, b, tolerance) ==
    isSimilarColor(<<HexR(a), HexG(a), HexB(a)>>, <<HexR(b), HexG(b), HexB(b)>>, tolerance)

\* C11: mergeColors gives every stitch a color of the group its own color is
\* in, one whose count in the pattern passed in is the highest of the group;
\* the number of stitches is unchanged; and for three colors of which two are
\* similar to each other and the third to neither, the result has two
\* colors: the third, and one of the pair with the higher count.
C11_MergeToMostUsed ==
    Merged =>
        /\ Len(pat.stitches) = Len(prevPat.stitches)
        /\ \A i \in 1..Len(pat.stitches) :
              LET old == prevPat.stitches[i].color.id
                  new == pat.stitches[i].color.id
              IN /\ new \in GroupOf(old)
                 /\ \A id \in GroupOf(old) : PrevEntry(new).count >= PrevEntry(id).count
                 /\ pat.stitches[i].x = prevPat.stitches[i].x
                 /\ pat.stitches[i].y = prevPat.stitches[i].y
        /\ Len(prevPat.colorCounts) = 3 =>
              \A a, b, c \in 1..3 :
                 LET cc == prevPat.colorCounts
                 IN (/\ a # b /\ a # c /\ b # c
                     /\ SimilarEntries(cc[a], cc[b], lastOp.mergeTolerance)
                     /\ ~SimilarEntries(cc[a], cc[c], lastOp.mergeTolerance)
                     /\ ~SimilarEntries(cc[b], cc[c], lastOp.mergeTolerance)
                     /\ cc[a].count >= cc[b].count) =>
                        /\ Len(pat.colorCounts) = 2
                        /\ HasKey(pat.colorCounts, cc[c].id)
                        /\ cc[a].count > cc[b].count => HasKey(pat.colorCounts, cc[a].id)
                        /\ HasKey(pat.colorCounts, cc[a].id) \/ HasKey(pat.colorCounts, cc[b].id)

\* three colors, two of them similar, and the pair goes to its second
\* member in the enumeration order, which has the higher count
C11_Witness ==
    /\ Merged
    /\ Len(prevPat.colorCounts) = 3
    /\ Len(pat.colorCounts) = 2
    /\ \E a, b \in 1..3 :
          LET cc == prevPat.colorCounts
          IN /\ a < b
             /\ SimilarEntries(cc[a], cc[b], lastOp.mergeTolerance)
             /\ \A c \in (1..3) \ {a, b} :
                   /\ ~SimilarEntries(cc[a], cc[c], lastOp.mergeTolerance)
                   /\ ~SimilarEntries(cc[b], cc[c], lastOp.mergeTolerance)
             /\ cc[b].count > cc[a].count
             /\ HasKey(pat.colorCounts, cc[b].id)
             /\ ~HasKey(pat.colorCounts, cc[a].id)

\* the colorCounts entries of p in the order in which the row-major scan
\* first produced a stitch of each color
RECURSIVE DiscoveryOrder(_, _)
DiscoveryOrder(p, k) ==
    IF k = 0 THEN << >>
    ELSE LET found == DiscoveryOrder(p, k - 1)
             id == p.stitches[k].color.id
         IN IF HasKey(found, id) THEN found
            ELSE Append(found, p.colorCounts[KeyPos(p.colorCounts, id)])

\* the ids that a first-fit pass over colors puts in one cluster with id
ClusterIn(colors, id, mergeTolerance) ==
    LET colorGroups == GroupColors(colors, Len(colors), mergeTolerance)
        j == CHOOSE j \in 1..Len(colorGroups) :
                \E m \in 1..Len(colorGroups[j].colors) : colorGroups[j].colors[m].id = id
    IN {colorGroups[j].colors[m].id : m \in 1..Len(colorGroups[j].colors)}

\* C12 (as claimed): mergeColors on a pattern returned by convertToPattern
\* merges exactly the colors that a first-fit pass anchored on the cluster
\* seeds puts together when it takes the colors in the order in which the
\* scan discovered them.
C12_DiscoveryOrderClustering ==
    (Merged /\ conv[1].status = "resolved" /\ prevPat = PatternOf(conv[1])) =>
        LET discovered == DiscoveryOrder(prevPat, Len(prevPat.stitches))
        IN \A i, j \in 1..Len(pat.stitches) :
              (pat.stitches[i].color.id = pat.stitches[j].color.id)
                <=> (prevPat.stitches[j].color.id
                       \in ClusterIn(discovered, prevPat.stitches[i].color.id,
                                     lastOp.mergeTolerance))

(***************************************************************************)
(* Properties of the synchronous calls.                                    *)
(***************************************************************************)
\* 100 times the weighted squared distance from palette entry k to <<r, g, b>>
PaletteDistance100(k, rgb) ==
    Distance100(HexR(DMC_COLORS[k]) - rgb[1], HexG(DMC_COLORS[k]) - rgb[2],
                HexB(DMC_COLORS[k]) - rgb[3])

\* C13: findClosestDMC returns the palette entry at the least weighted
\* squared distance 0.30 dr^2 + 0.59 dg^2 + 0.11 db^2 from its argument, the
\* first in palette order among the entries at that distance; an argument
\* that is the RGB of a palette entry gets an entry with that RGB.
C13_ClosestIsFirstMinimum ==
    (call.fn = "findClosestDMC" /\ call.done) =>
        \E k \in 1..Len(DMC_COLORS) :
            /\ call.result = DMC_COLORS[k]
            /\ \A m \in 1..Len(DMC_COLORS) :
                  PaletteDistance100(k, call.args) <= PaletteDistance100(m, call.args)
            /\ \A m \in 1..(k - 1) :
                  PaletteDistance100(k, call.args) < PaletteDistance100(m, call.args)
            /\ (\E m \in 1..Len(DMC_COLORS) : PaletteDistance100(m, call.args) = 0) =>
                  <<HexR(call.result), HexG(call.result), HexB(call.result)>> = call.args

\* C13, the example: a 2x2 opaque image of the color of a palette entry,
\* converted with gridSize 2 and no background removal, gives height 2 and
\* four stitches of the first palette entry of that color, which is the only
\* key of colorCounts, with count 4.
C13_UniformImage ==
    (/\ conv[1].status = "resolved"
     /\ imageData.width = 2 /\ imageData.height = 2
     /\ conv[1].gridWidth = 2
     /\ ~conv[1].removeBackground
     /\ \A i \in DOMAIN heap[0] : heap[0][i] = 255) =>
        /\ pat.height = 2
        /\ Len(pat.stitches) = 4
        /\ \A k \in 1..4 : pat.stitches[k].color = DMC_COLORS[1]
        /\ Len(pat.colorCounts) = 1
        /\ pat.colorCounts[1].id = "White" /\ pat.colorCounts[1].count = 4

\* C13: findClosestDMC returns the first palette entry at the least weighted
\* squared distance, and the 2x2 image of one palette color converts to four
\* stitches of that entry.
C13_Holds == C13_ClosestIsFirstMinimum /\ C13_UniformImage

\* a color half way between two grays of the palette goes to the one that
\* comes first in the palette, which is not the first one of the scan by
\* value
C13_Witness ==
    /\ call.fn = "findClosestDMC" /\ call.done
    /\ call.args = <<160, 160, 160>>
    /\ call.result.id = "415"
    /\ PaletteDistance100(5, call.args) = PaletteDistance100(6, call.args)

\* the 2x2 white image has been converted
C13_WitnessUniform ==
    /\ conv[1].status = "resolved"
    /\ imageData.width = 2 /\ imageData.height = 2
    /\ conv[1].gridWidth = 2
    /\ ~conv[1].removeBackground
    /\ \A i \in DOMAIN heap[0] : heap[0][i] = 255
    /\ Len(pat.stitches) = 4

\* the RGB of two palette entries: the first of them is returned
C13_WitnessExact ==
    /\ call.fn = "findClosestDMC" /\ call.done
    /\ call.args = <<255, 255, 255>>
    /\ call.result.id = "White"

\* <<x, y>> is on the border of the image
OnBorder(pos) ==
    \/ pos[1] = 0 \/ pos[1] = imageData.width - 1
    \/ pos[2] = 0 \/ pos[2] = imageData.height - 1

\* C14: detectBackgroundColor takes 44 samples on the border, groups them
\* first-fit in sample order (a sample joins the first group whose
\* representative is at rooted distance < 20, else it starts a group with
\* itself as representative) and returns the representative of the group
\* with the highest count, the earliest group on equal counts; on an image
\* with an all-white border it returns white whatever the interior is.
C14_BackgroundIsLargestGroup ==
    (call.fn = "detectBackgroundColor" /\ call.done) =>
        LET positions == SamplePositions(imageData.width, imageData.height)
            samples == Samples(heap[0], imageData.width, imageData.height)
            groups == SampleGroups(samples, Len(samples))
            \* the group sample k is counted in: the first whose
            \* representative is similar to it
            groupOf(k) == CHOOSE j \in 1..Len(groups) :
                             /\ isSimilarColor(samples[k], groups[j].color, 20)
                             /\ \A m \in 1..(j - 1) :
                                   ~isSimilarColor(samples[k], groups[m].color, 20)
        IN /\ Len(positions) = 44
           /\ \A k \in 1..44 :
                 /\ OnBorder(positions[k])
                 /\ positions[k][1] \in 0..(imageData.width - 1)
                 /\ positions[k][2] \in 0..(imageData.height - 1)
           /\ \A j \in 1..Len(groups) :
                 /\ groups[j].count = Cardinality({k \in 1..44 : groupOf(k) = j})
                 /\ \E k \in 1..44 :
                       /\ samples[k] = groups[j].color
                       /\ groupOf(k) = j
                       /\ \A m \in 1..(k - 1) : groupOf(m) # j
           /\ \E j \in 1..Len(groups) :
                 /\ call.result = groups[j].color
                 /\ \A m \in 1..Len(groups) : groups[j].count >= groups[m].count
                 /\ \A m \in 1..(j - 1) : groups[j].count > groups[m].count
           /\ (\A k \in 1..44 : samples[k] = <<255, 255, 255>>) =>
                 call.result = <<255, 255, 255>>

\* the group returned is not the first one, it has a member that is not
\* its representative, and a sample similar to two representatives was
\* counted in the earlier group
C14_Witness ==
    /\ call.fn = "detectBackgroundColor" /\ call.done
    /\ LET samples == Samples(heap[0], imageData.width, imageData.height)
           groups == SampleGroups(samples, Len(samples))
       IN /\ Len(groups) >= 3
          /\ call.result # groups[1].color
          /\ \E k \in 1..Len(samples), j \in 1..Len(groups) :
                /\ call.result = groups[j].color
                /\ samples[k] # groups[j].color
                /\ isSimilarColor(samples[k], groups[j].color, 20)
                /\ \A m \in 1..(j - 1) : ~isSimilarColor(samples[k], groups[m].color, 20)

\* two groups have the highest count and the earlier one is returned
C14_WitnessTie ==
    /\ call.fn = "detectBackgroundColor" /\ call.done
    /\ LET samples == Samples(heap[0], imageData.width, imageData.height)
           groups == SampleGroups(samples, Len(samples))
       IN \E j, m \in 1..Len(groups) :
             /\ j < m
             /\ groups[j].count = groups[m].count
             /\ call.result = groups[j].color

\* a white border around an interior that is not white
C14_WitnessFrame ==
    /\ call.fn = "detectBackgroundColor" /\ call.done
    /\ call.result = <<255, 255, 255>>
    /\ \E i \in DOMAIN heap[0] : heap[0][i] # 255
    /\ LET samples == Samples(heap[0], imageData.width, imageData.height)
       IN \A k \in 1..Len(samples) : samples[k] = <<255, 255, 255>>

(***************************************************************************)
(* C15: which grid cells produce a stitch.                                 *)
(***************************************************************************)
\* the accumulators and working buffer contents before each grid cell of
\* call c, in processing order, and after the last one
RECURSIVE CellStates(_, _, _)
CellStates(c, s, k) ==
    IF k >= c.total THEN <<s>>
    ELSE <<s>> \o CellStates(c, ProcessCell(c, s, k % c.gridWidth, k \div c.gridWidth), k + 1)

\* the pixel grid cell k of call c samples in buffer contents data
Sampled(c, data, k) ==
    LET sampleX == ((2 * (k % c.gridWidth) + 1) * imageData.width) \div (2 * c.gridWidth)
        sampleY == ((2 * (k \div c.gridWidth) + 1) * imageData.height) \div (2 * c.gridHeight)
        idx == (sampleY * imageData.width + sampleX) * 4
    IN [r |-> data[idx], g |-> data[idx + 1], b |-> data[idx + 2], a |-> data[idx + 3]]

\* the root of the weighted squared distance of px to color is below tolerance
CloserThan(px, color, tolerance) ==
    30 * (px.r - color[1]) * (px.r - color[1])
      + 59 * (px.g - color[2]) * (px.g - color[2])
      + 11 * (px.b - color[3]) * (px.b - color[3]) < 100 * tolerance * tolerance

CountIn(cc, id) == IF HasKey(cc, id) THEN cc[KeyPos(cc, id)].count ELSE 0

NoStart == [data |-> heap[0], stitches |-> << >>, colorCounts |-> << >>,
            processed |-> 0, skipped |-> 0]

\* C15: a grid cell of a resolved conversion added a stitch if and only if
\* its sampled alpha is above 128 and not (removeBackground is set, a
\* background color is given and the sampled color is closer to it than
\* tolerance); a cell that added no stitch left colorCounts as it was, and an
\* added stitch has the cell's coordinates and findClosestDMC of the sampled
\* RGB, whose count went up by one.
C15_StitchIffOpaqueAndNotBackground ==
    conv[1].status = "resolved" =>
        LET c == conv[1]
            states == CellStates(c, NoStart, 0)
        IN /\ states[c.total + 1].stitches = c.stitches
           /\ states[c.total + 1].colorCounts = c.colorCounts
           /\ \A k \in 0..(c.total - 1) :
                 LET before == states[k + 1]
                     after == states[k + 2]
                     px == Sampled(c, before.data, k)
                     background == /\ c.removeBackground
                                   /\ c.backgroundColor # Null
                                   /\ CloserThan(px, c.backgroundColor, c.tolerance)
                     dmc == findClosestDMC(px.r, px.g, px.b)
                 IN IF px.a > 128 /\ ~background
                    THEN /\ after.stitches =
                               Append(before.stitches,
                                      [x |-> k % c.gridWidth, y |-> k \div c.gridWidth,
                                       color |-> dmc])
                         /\ \A e \in 1..Len(DMC_COLORS) :
                               CountIn(after.colorCounts, DMC_COLORS[e].id) =
                                   CountIn(before.colorCounts, DMC_COLORS[e].id)
                                     + (IF DMC_COLORS[e].id = dmc.id THEN 1 ELSE 0)
                    ELSE /\ after.stitches = before.stitches
                         /\ after.colorCounts = before.colorCounts

\* a resolved conversion with a stitched cell, a cell skipped as background
\* and a cell skipped for its alpha
C15_Witness ==
    /\ conv[1].status = "resolved"
    /\ conv[1].removeBackground
    /\ conv[1].backgroundColor # Null
    /\ conv[1].skipped > 0
    /\ Len(conv[1].stitches) > 0
    /\ conv[1].processed > conv[1].skipped + Len(conv[1].stitches)

\* background removal asked for without a background color: an opaque white
\* cell is stitched
C15_WitnessNoColor ==
    /\ conv[1].status = "resolved"
    /\ conv[1].removeBackground
    /\ conv[1].backgroundColor = Null
    /\ \E k \in 1..Len(conv[1].stitches) : conv[1].stitches[k].color.id = "White"

\* a dithered conversion in which a stitched cell sampled a value that error
\* diffusion had written
C15_WitnessDithered ==
    /\ conv[1].status = "resolved"
    /\ conv[1].useDithering
    /\ LET c == conv[1]
           states == CellStates(c, NoStart, 0)
       IN \E k \in 0..(c.total - 1) :
             /\ Sampled(c, states[k + 1].data, k) # Sampled(c, heap[0], k)
             /\ Len(states[k + 2].stitches) = Len(states[k + 1].stitches) + 1

(***************************************************************************)
(* C16: the size of the pattern.                                           *)
(***************************************************************************)
\* C16 (as claimed): the pattern returned for a buffer of at least one pixel
\* has the width gridSize and the height round(gridSize * height / width),
\* and that height is at least 1.
C16_HeightAtLeastOne ==
    (conv[1].status = "resolved" /\ imageData.width >= 1 /\ imageData.height >= 1) =>
        /\ pat # Null
        /\ pat.width = conv[1].gridWidth
        /\ 2 * imageData.width * pat.height
              <= 2 * conv[1].gridWidth * imageData.height + imageData.width
        /\ 2 * conv[1].gridWidth * imageData.height + imageData.width
              < 2 * imageData.width * (pat.height + 1)
        /\ pat.height >= 1

(***************************************************************************)
(* C17: two calls in flight.                                               *)
(***************************************************************************)
\* the pattern call c returns when it runs alone on buffer contents data
Alone(c, data) ==
    LET s0 == [data |-> data, stitches |-> << >>, colorCounts |-> << >>,
               processed |-> 0, skipped |-> 0]
        s1 == ProcessRows(c, s0, 0, c.gridHeight)
    IN [stitches |-> s1.stitches, width |-> c.gridWidth, height |-> c.gridHeight,
        colorCounts |-> s1.colorCounts]

\* C17: of two convertToPattern calls on the same imageData whose callbacks
\* interleave, each resolves to the pattern it returns when it runs alone,
\* with dithering on or off in either call; two calls with the same options
\* resolve to equal patterns.
C17_ConcurrentCallsIndependent ==
    /\ \A i \in ConvIds :
          conv[i].status = "resolved" => PatternOf(conv[i]) = Alone(conv[i], heap[0])
    /\ (/\ conv[1].status = "resolved"
        /\ conv[2].status = "resolved"
        /\ Settings(conv[1]) = Settings(conv[2]))
          => PatternOf(conv[1]) = PatternOf(conv[2])

\* both calls dithered and resolved, and a callback of the second call ran
\* between two callbacks of the first
C17_Witness ==
    /\ conv[1].status = "resolved" /\ conv[2].status = "resolved"
    /\ conv[1].useDithering /\ conv[2].useDithering
    /\ order = <<1, 2, 1, 2>>
    /\ heap[1] # heap[0]
    /\ heap[2] # heap[0]
    /\ heap[1] # heap[2]

\* interleaved calls, the first dithered and the second not
C17_WitnessMixed ==
    /\ conv[1].status = "resolved" /\ conv[2].status = "resolved"
    /\ conv[1].useDithering /\ ~conv[2].useDithering
    /\ order = <<1, 2, 1, 2>>
    /\ heap[1] # heap[0]
    /\ PatternOf(conv[1]) # PatternOf(conv[2])

(***************************************************************************)
(* C18: the caller's pixel buffer.                                         *)
(***************************************************************************)
\* C18: no step of convertToPattern or detectBackgroundColor changes the
\* contents of imageData.data: with dithering the error diffusion writes to
\* the call's own copy, without dithering nothing is written.
C18_CallerBufferUnchanged == [][heap'[imageData.data] = heap[imageData.data]]_vars

\* a dithered conversion has resolved and error diffusion has written to
\* its working copy
C18_Witness ==
    /\ conv[1].status = "resolved"
    /\ conv[1].useDithering
    /\ conv[1].workingData # imageData.data
    /\ heap[conv[1].workingData] # heap[imageData.data]

\* a conversion without dithering has resolved with stitches
C18_WitnessNoDithering ==
    /\ conv[1].status = "resolved"
    /\ ~conv[1].useDithering
    /\ conv[1].workingData = imageData.data
    /\ conv[1].stitches # << >>

\* detectBackgroundColor has returned
C18_WitnessDetect ==
    /\ call.fn = "detectBackgroundColor"
    /\ call.done
    /\ imageData.width > 1

(***************************************************************************)
(* C19: limitColors, mergeColors and applyShapeMask leave their argument   *)
(* alone.                                                                  *)
(***************************************************************************)
\* the last post-processing call, made again on pattern
Again(pattern) ==
    IF lastOp.name = "limitColors" THEN limitColors(pattern, lastOp.maxColors)
    ELSE IF lastOp.name = "mergeColors" THEN mergeColors(pattern, lastOp.mergeTolerance)
    ELSE applyShapeMask(pattern, lastOp.shape)

Entries(cc) == {cc[k] : k \in 1..Len(cc)}

\* after a post-processing call: the same call on the argument, as the call
\* left it, returns an equal pattern, and a stitch of the result is a stitch
\* of the argument or has an entry of the argument's colorCounts as its
\* color, with the count the entry had before the call
SameResultAgain ==
    lastOp.name # "none" =>
        /\ Again(prevPat) = pat
        /\ \A k \in 1..Len(pat.stitches) :
              \/ \E m \in 1..Len(prevPat.stitches) : pat.stitches[k] = prevPat.stitches[m]
              \/ pat.stitches[k].color \in Entries(prevPat.colorCounts)

C19_WitnessMerge ==
    /\ lastOp.name = "mergeColors"
    /\ Len(pat.colorCounts) < Len(prevPat.colorCounts)

\* applyShapeMask returned a pattern with fewer stitches than its argument
C19_WitnessMask ==
    /\ lastOp.name = "applyShapeMask"
    /\ Len(pat.stitches) < Len(prevPat.stitches)

(***************************************************************************)
(* C20: buffers without pixels.                                            *)
(***************************************************************************)
\* C20 (as claimed): convertToPattern called with a buffer of zero width or
\* zero height is rejected with an error: the call does not resolve and no
\* pattern, empty or not, reaches the caller.
C20_EmptyBufferRejected ==
    (imageData.width = 0 \/ imageData.height = 0) =>
        /\ conv[1].status # "resolved"
        /\ pat = Null

(***************************************************************************)
(* C21: options out of range.                                              *)
(***************************************************************************)
\* C21 (as claimed): an option out of range is clamped to the nearest valid
\* value (no call is rejected): limitColors with maxColors <= 0 returns what
\* limitColors with maxColors = 1 returns, mergeColors with mergeTolerance
\* <= 0 what mergeColors with mergeTolerance = 0 returns.
C21_OutOfRangeClamped ==
    /\ (lastOp.name = "limitColors" /\ lastOp.maxColors <= 0) =>
          pat = limitColors(prevPat, 1)
    /\ (lastOp.name = "mergeColors" /\ lastOp.mergeTolerance <= 0) =>
          pat = mergeColors(prevPat, 0)

(***************************************************************************)
(* C22: the exported document.                                             *)
(***************************************************************************)
\* the document of the last download
Exported == call.result

RECURSIVE SumPalette(_, _)
SumPalette(palette, k) == IF k = 0 THEN 0 ELSE SumPalette(palette, k - 1) + palette[k].count

\* C22: in the document downloadOpenFormat exports, pattern.stitchCount is
\* the number of stitch entries, every stitch entry's color is the id of
\* exactly one palette entry, every stitch has type "full", every palette
\* count is the number of stitch entries of that id, and the palette counts
\* sum to stitchCount.
C22_ExportSelfConsistent ==
    (call.fn = "generateOpenCrossStitchFormat" /\ call.done) =>
        /\ Exported.pattern.stitchCount = Len(Exported.stitches)
        /\ \A k \in 1..Len(Exported.stitches) :
              /\ Cardinality({m \in 1..Len(Exported.palette) :
                                 Exported.palette[m].id = Exported.stitches[k].color}) = 1
              /\ Exported.stitches[k].type = "full"
        /\ \A m \in 1..Len(Exported.palette) :
              Exported.palette[m].count =
                  Cardinality({k \in 1..Len(Exported.stitches) :
                                 Exported.stitches[k].color = Exported.palette[m].id})
        /\ SumPalette(Exported.palette, Len(Exported.palette)) = Exported.pattern.stitchCount

\* an export after limitColors: fewer palette entries than the conversion
\* found colors
C22_Witness ==
    /\ call.fn = "generateOpenCrossStitchFormat" /\ call.done
    /\ \E i \in ConvIds :
          /\ conv[i].status = "resolved"
          /\ conv[i].post.useMaxColors
          /\ app.pattern = ShownPattern(FinalResult(conv[i]))
          /\ Len(Exported.palette) < Len(conv[i].colorCounts)
          /\ Len(Exported.palette) >= 2
          /\ Exported.pattern.stitchCount >= 3

\* an export after applyShapeMask: fewer stitches than the conversion made
C22_WitnessShape ==
    /\ call.fn = "generateOpenCrossStitchFormat" /\ call.done
    /\ conv[2].status = "resolved"
    /\ conv[2].post.patternShape # "rectangle"
    /\ app.pattern = ShownPattern(FinalResult(conv[2]))
    /\ Exported.pattern.stitchCount < Len(conv[2].stitches)
    /\ Exported.pattern.stitchCount >= 1

(***************************************************************************)
(* C23: zoom.                                                              *)
(***************************************************************************)
ZoomValid == zoom \in {25 * n : n \in 1..16}

\* C23: zoom is a multiple of 25% between 25% and 400%; a step of the zoom
\* buttons moves it by 25% or sets it to 100%, and a newly shown pattern
\* sets it to 100%.
C23_ZoomInRange ==
    /\ []ZoomValid
    /\ [][/\ (app'.pattern # app.pattern /\ app'.pattern # Null) => zoom' = 100
          /\ (app'.pattern = app.pattern /\ zoom' # zoom) =>
                \/ zoom' = zoom + 25
                \/ zoom' = zoom - 25
                \/ zoom' = 100]_vars

\* the zoom has reached its upper limit
C23_Witness == zoom = 400 /\ app.pattern # Null

\* the zoom has reached its lower limit
C23_WitnessLow == zoom = 25 /\ app.pattern # Null

\* a second pattern is shown after the user had zoomed the first
C23_WitnessNewPattern ==
    /\ zoom = 100
    /\ conv[1].status = "resolved" /\ conv[2].status = "resolved"
    /\ app.pattern = ShownPattern(FinalResult(conv[2]))

(***************************************************************************)
(* C24: where the quantization error goes.                                 *)
(***************************************************************************)
\* the kernels as documented: <<dx, dy, sixteenths>>
DocumentedKernel(algorithm) ==
    IF algorithm = "floyd-steinberg"
    THEN {<<1, 0, 7>>, <<-1, 1, 3>>, <<0, 1, 5>>, <<1, 1, 1>>}
    ELSE IF algorithm = "atkinson"
    THEN {<<1, 0, 2>>, <<2, 0, 2>>, <<-1, 1, 2>>, <<0, 1, 2>>, <<1, 1, 2>>, <<0, 2, 2>>}
    ELSE {}

\* grid cell k of call c, processed on buffer contents before, left after:
\* every pixel the kernel names received its share of the error, nothing
\* else changed
Diffused(c, before, after, k) ==
    LET width == imageData.width
        sx == ((2 * (k % c.gridWidth) + 1) * width) \div (2 * c.gridWidth)
        sy == ((2 * (k \div c.gridWidth) + 1) * imageData.height) \div (2 * c.gridHeight)
        px == Sampled(c, before, k)
        dmc == findClosestDMC(px.r, px.g, px.b)
        error == <<px.r - HexR(dmc), px.g - HexG(dmc), px.b - HexB(dmc)>>
    IN \A p \in 0..(width * imageData.height - 1) :
          LET hits == {e \in DocumentedKernel(c.ditheringAlgorithm) :
                          /\ sx + e[1] = p % width
                          /\ sy + e[2] = p \div width}
          IN /\ after[4 * p + 3] = before[4 * p + 3]
             /\ \A ch \in 0..2 :
                   IF hits = {} THEN after[4 * p + ch] = before[4 * p + ch]
                   ELSE \E e \in hits :
                           after[4 * p + ch] =
                               ClampedStore16(16 * before[4 * p + ch] + error[ch + 1] * e[3])

\* C24: with dithering, a stitched cell diffuses its error (sampled minus
\* matched RGB) to the pixels of the working copy the kernel names, in the
\* documented shares, and to no other; a cell skipped as transparent or as
\* background changes nothing; the next cell samples the working copy as
\* the cells before it left it.
C24_ErrorDiffusion ==
    (conv[1].status = "resolved" /\ conv[1].useDithering) =>
        LET c == conv[1]
            states == CellStates(c, NoStart, 0)
        IN /\ states[c.total + 1].data = heap[c.workingData]
           /\ states[c.total + 1].stitches = c.stitches
           /\ \A k \in 0..(c.total - 1) :
                 IF Len(states[k + 2].stitches) = Len(states[k + 1].stitches)
                 THEN states[k + 2].data = states[k + 1].data
                 ELSE Diffused(c, states[k + 1].data, states[k + 2].data, k)

\* an atkinson conversion in which a stitched cell wrote two rows down, a
\* cell was skipped, and the copy differs from the image
C24_Witness ==
    /\ conv[1].status = "resolved"
    /\ conv[1].useDithering
    /\ conv[1].ditheringAlgorithm = "atkinson"
    /\ conv[1].skipped > 0
    /\ imageData.height >= 3
    /\ \E i \in 8 * imageData.width..(4 * imageData.width * imageData.height - 1) :
          heap[1][i] # heap[0][i]

\* a floyd-steinberg conversion whose working copy differs from the image
\* in a pixel right of a sampled one and in a pixel below one
C24_WitnessFloydSteinberg ==
    /\ conv[1].status = "resolved"
    /\ conv[1].useDithering
    /\ conv[1].ditheringAlgorithm = "floyd-steinberg"
    /\ imageData.width >= 2 /\ imageData.height >= 2
    /\ \E i \in 4..7 : heap[1][i] # heap[0][i]
    /\ \E i \in 4 * imageData.width..(4 * imageData.width * imageData.height - 1) :
          heap[1][i] # heap[0][i]

(***************************************************************************)
(* C25: distributeError.                                                   *)
(***************************************************************************)
\* before and after are the buffer contents around the call of
\* distributeError with args = <<x, y, errorR, errorG, errorB, factor16>>
OnlyTargetChanged(before, after, args) ==
    LET x == args[1]
        y == args[2]
        idx == (y * imageData.width + x) * 4
        inside == x >= 0 /\ x < imageData.width /\ y >= 0 /\ y < imageData.height
        zero == args[3] = 0 /\ args[4] = 0 /\ args[5] = 0
    IN /\ DOMAIN after = DOMAIN before
       /\ (~inside \/ zero) => after = before
       /\ inside =>
             /\ \A i \in DOMAIN before : i \notin {idx, idx + 1, idx + 2} => after[i] = before[i]
             /\ \A ch \in 0..2 :
                   LET exact16 == 16 * before[idx + ch] + args[3 + ch] * args[6]
                   IN /\ after[idx + ch] \in 0..255
                      /\ exact16 <= 0 => after[idx + ch] = 0
                      /\ exact16 >= 16 * 255 => after[idx + ch] = 255
                      /\ (exact16 > 0 /\ exact16 < 16 * 255) =>
                            /\ 16 * after[idx + ch] - exact16 <= 8
                            /\ exact16 - 16 * after[idx + ch] <= 8

\* C25: distributeError leaves the buffer unchanged when the target is
\* outside the image or the error is zero; otherwise it changes only the
\* R, G and B bytes of the target pixel, each to old + error * factor
\* rounded to a byte and clamped to 0..255, and no alpha byte and no other
\* pixel.
C25_DistributeErrorFrame ==
    [][(call.fn = "distributeError" /\ call'.done /\ ~call.done) =>
          OnlyTargetChanged(heap[1], heap'[1], call.args)]_vars

\* a call that clamped a channel at 255 and one at 0
C25_Witness ==
    /\ call.fn = "distributeError" /\ call.done
    /\ heap[1] # heap[0]
    /\ \E i \in DOMAIN heap[1] : heap[1][i] = 255 /\ heap[0][i] < 255 /\ call.args[3] = 200
    /\ \E i \in DOMAIN heap[1] : heap[1][i] = 0 /\ heap[0][i] > 0

\* a call with a target outside the image and an error that is not zero
C25_WitnessOutside ==
    /\ call.fn = "distributeError" /\ call.done
    /\ call.args[1] = imageData.width
    /\ call.args[3] # 0
    /\ heap[1] = heap[0]

\* a call with a zero error on a target inside the image
C25_WitnessZero ==
    /\ call.fn = "distributeError" /\ call.done
    /\ call.args[1] = 0 /\ call.args[2] = 0
    /\ call.args[3] = 0 /\ call.args[4] = 0 /\ call.args[5] = 0

(***************************************************************************)
(* C26: the heart at the angle 0.                                          *)
(***************************************************************************)
\* dy = 0, dx >= 0 and r = dx <= 0.8 for the stitch at (x, y)
OnAxisInside(x, y, width, height) ==
    /\ 2 * y = height
    /\ 2 * x >= width
    /\ 10 * (2 * x - width) <= 8 * width

\* C26 (as claimed): applyShapeMask with shape 'heart' keeps a stitch whose
\* normalized offset has dy = 0 and dx >= 0 when r <= 0.8, the center of the
\* grid included.
C26_HeartGuardAtZeroAngle ==
    (lastOp.name = "applyShapeMask" /\ lastOp.shape = "heart") =>
        \A k \in 1..Len(prevPat.stitches) :
            OnAxisInside(prevPat.stitches[k].x, prevPat.stitches[k].y,
                         prevPat.width, prevPat.height)
              => \E m \in 1..Len(pat.stitches) : pat.stitches[m] = prevPat.stitches[k]

(***************************************************************************)
(* C27: connected components.                                              *)
(***************************************************************************)
\* the pixels one horizontal or vertical step from a pixel of set that are
\* foreground, together with set
Grow(set, binaryMap, width, height) ==
    set \cup {q \in 0..(width * height - 1) :
                /\ binaryMap[q] = 1
                /\ \E p \in set :
                      \/ q = p - 1 /\ p % width > 0
                      \/ q = p + 1 /\ p % width < width - 1
                      \/ q = p - width
                      \/ q = p + width}

\* the foreground pixels joined to pixel p by a path of adjacent foreground
\* pixels
RECURSIVE Region(_, _, _, _)
Region(set, binaryMap, width, height) ==
    LET next == Grow(set, binaryMap, width, height)
    IN IF next = set THEN set ELSE Region(next, binaryMap, width, height)

PixelSet(component) == {component.pixels[k] : k \in 1..Len(component.pixels)}

\* C27 (as claimed): the components findConnectedComponents returns are the
\* 4-connected regions of the foreground: each component holds exactly the
\* pixels joined to its first pixel, every foreground pixel is in exactly
\* one component, size is the number of pixels, and the sizes descend.
C27_ComponentsAreRegions ==
    (call.fn = "findConnectedComponents" /\ call.done) =>
        LET binaryMap == call.args[1]
            width == call.args[2]
            height == call.args[3]
            components == call.result
        IN /\ \A k \in 1..Len(components) :
                 /\ components[k].size = Len(components[k].pixels)
                 /\ components[k].size = Cardinality(PixelSet(components[k]))
                 /\ PixelSet(components[k]) =
                       Region({components[k].pixels[1]}, binaryMap, width, height)
           /\ \A p \in 0..(width * height - 1) :
                 Cardinality({k \in 1..Len(components) : p \in PixelSet(components[k])})
                     = binaryMap[p]
           /\ \A k \in 1..(Len(components) - 1) : components[k].size >= components[k + 1].size

(***************************************************************************)
(* C28: every read of the pixel buffer is inside it.                       *)
(***************************************************************************)
\* C28: for an image of at least one pixel, detectBackgroundColor has 44
\* sample positions, all inside the image, and reads only indices of the
\* buffer; for every cell of the grid of a convertToPattern call the sample
\* point is inside the image and the four indices read are indices of the
\* working buffer.
C28_ReadsInsideBuffer ==
    (imageData.width >= 1 /\ imageData.height >= 1) =>
        LET width == imageData.width
            height == imageData.height
            positions == SamplePositions(width, height)
        IN /\ Len(positions) = 44
           /\ \A k \in 1..Len(positions) :
                 /\ positions[k][1] \in 0..(width - 1)
                 /\ positions[k][2] \in 0..(height - 1)
           /\ PositionReads(width, height) \subseteq DOMAIN heap[imageData.data]
           /\ \A i \in ConvIds :
                 conv[i].status # "idle" =>
                    \A x \in 0..(conv[i].gridWidth - 1), y \in 0..(conv[i].gridHeight - 1) :
                       /\ SampleCoord(x, width, conv[i].gridWidth) \in 0..(width - 1)
                       /\ SampleCoord(y, height, conv[i].gridHeight) \in 0..(height - 1)
                       /\ CellReads(conv[i].gridWidth, conv[i].gridHeight, width, height, x, y)
                             \subseteq DOMAIN heap[conv[i].workingData]

\* detectBackgroundColor has returned for an image one pixel wide and more
\* than one pixel high
C28_Witness ==
    /\ call.fn = "detectBackgroundColor"
    /\ call.done
    /\ imageData.width = 1
    /\ imageData.height > 1

\* detectBackgroundColor has returned for an image one pixel high
C28_WitnessFlat ==
    /\ call.fn = "detectBackgroundColor"
    /\ call.done
    /\ imageData.width > 1
    /\ imageData.height = 1

\* a conversion has resolved whose grid is finer than the image in both
\* axes, with a stitch for every cell
C28_WitnessFiner ==
    /\ conv[1].status = "resolved"
    /\ imageData.width = 1
    /\ conv[1].gridWidth > imageData.width
    /\ conv[1].gridHeight > imageData.height
    /\ imageData.height >= 1
    /\ Len(conv[1].stitches) = conv[1].gridWidth * conv[1].gridHeight

(***************************************************************************)
(* C29: the conversion terminates, chunk after chunk.                      *)
(***************************************************************************)
\* Math.max(1, Math.ceil(gridHeight / 5))
ExpectedChunks(gridHeight) == Max(1, (gridHeight + 4) \div 5)

\* while the call runs exactly one callback is queued, for the row where
\* the chunks so far have ended; once the promise has resolved nothing is
\* queued, the number of chunk invocations is max(1, ceil(gridHeight / 5)),
\* processed is gridWidth * gridHeight and no cell has two stitches
ChunkingValid ==
    LET c == conv[1]
    IN /\ c.status = "running" =>
             /\ rafQueue = << <<1, 5 * c.chunks>> >>
             /\ 5 * c.chunks < c.gridHeight \/ c.chunks = 0
             /\ c.processed = c.gridWidth * 5 * c.chunks
       /\ c.status = "resolved" =>
             /\ rafQueue = << >>
             /\ c.chunks = ExpectedChunks(c.gridHeight)
             /\ c.processed = c.gridWidth * c.gridHeight
             /\ \A j, k \in 1..Len(c.stitches) :
                   (c.stitches[j].x = c.stitches[k].x /\ c.stitches[j].y = c.stitches[k].y)
                       => j = k

\* C29: if every queued animation-frame callback eventually runs, the
\* promise of convertToPattern eventually resolves and stays resolved, after
\* exactly max(1, ceil(gridHeight / 5)) chunk invocations, each starting at
\* the row where the one before ended, with processed = gridWidth *
\* gridHeight at resolution and nothing scheduled after it.
C29_ConversionTerminates ==
    /\ []ChunkingValid
    /\ <>[](conv[1].status = "resolved" /\ rafQueue = << >>)
    /\ [][/\ conv[1].status = "running"
          /\ conv'[1].chunks = conv[1].chunks + 1
          /\ FrameRuns]_vars

\* a conversion of more than fifteen rows has resolved after four chunks
C29_Witness ==
    /\ conv[1].status = "resolved"
    /\ conv[1].gridHeight > 15
    /\ conv[1].chunks = 4

\* a conversion of exactly five rows has resolved after one chunk
C29_WitnessOneChunk ==
    /\ conv[1].status = "resolved"
    /\ conv[1].gridHeight = 5
    /\ conv[1].chunks = 1

\* a conversion is between its second and its third chunk
C29_WitnessRunning ==
    /\ conv[1].status = "running"
    /\ conv[1].chunks = 2
    /\ rafQueue = << <<1, 10>> >>

(***************************************************************************)
(* C30: Floyd-Steinberg dithering on a coarse grid.                        *)
(***************************************************************************)
\* what the call c returns when it runs with useDithering = false on the
\* caller's buffer
Undithered(c) == Alone([c EXCEPT !.useDithering = FALSE, !.workingData = 0], heap[0])

\* the image is at least twice the grid in both axes: cellWidth >= 2 and
\* cellHeight >= 2
CoarseGrid(c) ==
    /\ imageData.width >= 2 * c.gridWidth
    /\ imageData.height >= 2 * c.gridHeight

\* C30: when cellWidth >= 2 and cellHeight >= 2, a call with useDithering
\* and the floyd-steinberg kernel resolves with the same stitches and the
\* same colorCounts as the call without dithering.
C30_DitheringInvisibleOnCoarseGrid ==
    (/\ conv[1].status = "resolved"
     /\ conv[1].useDithering
     /\ conv[1].ditheringAlgorithm = "floyd-steinberg"
     /\ CoarseGrid(conv[1])) =>
        /\ PatternOf(conv[1]).stitches = Undithered(conv[1]).stitches
        /\ PatternOf(conv[1]).colorCounts = Undithered(conv[1]).colorCounts

\* a floyd-steinberg call on a grid of two columns and two rows, each cell
\* two pixels wide and high, has resolved with four stitches of more than
\* one color after diffusing error into its working copy
C30_Witness ==
    /\ conv[1].status = "resolved"
    /\ conv[1].useDithering
    /\ conv[1].ditheringAlgorithm = "floyd-steinberg"
    /\ CoarseGrid(conv[1])
    /\ conv[1].gridWidth = 2
    /\ conv[1].gridHeight = 2
    /\ Len(conv[1].stitches) = 4
    /\ Len(conv[1].colorCounts) > 1
    /\ heap[1] # heap[0]

\* on a grid as fine as the image the same kernel changes the result
C30_WitnessFineGridDiffers ==
    /\ conv[1].status = "resolved"
    /\ conv[1].useDithering
    /\ conv[1].ditheringAlgorithm = "floyd-steinberg"
    /\ ~CoarseGrid(conv[1])
    /\ PatternOf(conv[1]).stitches # Undithered(conv[1]).stitches

\* with the atkinson kernel a coarse grid does not hide the dithering
C30_WitnessAtkinsonDiffers ==
    /\ conv[1].status = "resolved"
    /\ conv[1].useDithering
    /\ conv[1].ditheringAlgorithm = "atkinson"
    /\ CoarseGrid(conv[1])
    /\ PatternOf(conv[1]).stitches # Undithered(conv[1]).stitches
====
